---- MODULE Spec2Model ----
(***************************************************************************)
(* Model of the DI plugin analysis script (get-plugins.php) and of the     *)
(* bootstrap it requires.  The script is a batch program: it reads argv,   *)
(* reflects the target class, parses the global di.xml files, layers the  *)
(* area files of each scope on top, drops disabled entries, keeps the     *)
(* entries whose target is in the class hierarchy, and for each method    *)
(* filters by hook, sorts and synthesises the execution order.             *)
(*                                                                         *)
(* Strings the code takes apart (class names, method names, paths, the    *)
(* sortOrder attribute) are sequences of symbols; strings it only compares *)
(* (plugin names, the disabled attribute, scopes) are TLA+ strings.        *)
(***************************************************************************)
EXTENDS Integers, Sequences, FiniteSets, TLC

VARIABLES
    pc,                     \* position in the script
    argv,                   \* $argv: script, magentoRoot, className[, methodName]
    warnings,               \* $warnings
    classReflected,         \* $classReflection !== null
    normalizedHierarchy,    \* $normalizedHierarchy
    methodsToScan,          \* $methodsToScan
    diFiles,                \* the file list of the running parse pass
    plugins,                \* $plugins of the running parsePluginsFromFiles call
    curFile,                \* index in diFiles of the file being read, 0 before the first
    xmlOk,                  \* whether simplexml_load_file succeeded on that file
    nDecls,                 \* plugin elements read so far (bounds the input)
    globalPlugins,          \* $globalPlugins
    areaDiFiles,            \* $areaDiFiles
    areaPlugins,            \* $areaPlugins of each scope processed so far
    scopeIdx,               \* position of the Step 5 loop in $allScopes
    perScopeMatchedPlugins, \* $perScopeMatchedPlugins
    methodIdx,              \* position of the Step 6 loop in $methodsToScan
    methodResults,          \* $methodResults (all-methods mode)
    totalPluginCount,       \* $totalPluginCount (all-methods mode)
    stdout,                 \* the JSON documents echoed (none or one)
    stderr,                 \* the messages written to STDERR
    exitCode,               \* <<status>> once the process has ended, <<>> while it runs
    moduleStatusMap,        \* $moduleStatuses: the modules entry of app/etc/config.php
    existingFiles,          \* the paths file_exists() accepts
    discoveredModulePaths,  \* $enabledModulePaths as the bootstrap has built it
    collectScope,           \* the $scope argument of collectDiXmlFiles
    readNodes,              \* the <plugin> nodes read so far, each with its file
    execState,              \* position in executePhpScript
    envFile,                \* the .env file of the project root: absent or its content
    projectMarkers,         \* the other marker files that exist in the project root
    dockerEnv,              \* <<environment>> as detected, <<>> for null
    commands,               \* the commands built by dockerEnv.buildCommands
    cmdIdx,                 \* the commands of the list tried so far
    executed,               \* the commands run so far, with how each ended
    staged,                 \* var/tmp/mcp-php exists in the project root
    scriptResult,           \* <<result>> once executePhpScript has returned
    logged,                 \* the messages written with console.error
    args,                   \* the args array of the caller of executePhpScript
    removed,                \* the rmSync calls on var/tmp/mcp-php, with how each ended
    magerunState,           \* position in executeMagerun2Command
    parseJson,              \* its parseJson argument
    execResult,             \* <<outcome>> of its execAsync call, <<>> before
    magerunResult,          \* <<result>> once it has returned
    calls,                  \* two overlapping calls of executePhpScript
    tmpDir                  \* the calls whose scripts are in var/tmp/mcp-php

vars == <<pc, argv, warnings, classReflected, normalizedHierarchy,
          methodsToScan, diFiles, plugins, curFile, xmlOk, nDecls, globalPlugins,
          areaDiFiles, areaPlugins, scopeIdx, perScopeMatchedPlugins, methodIdx,
          methodResults, totalPluginCount, stdout, stderr, exitCode,
          moduleStatusMap, existingFiles, discoveredModulePaths, collectScope,
          execState, envFile, projectMarkers, dockerEnv, commands, cmdIdx, executed,
          staged, scriptResult, logged, readNodes, args, removed, magerunState,
          parseJson, execResult, magerunResult, calls, tmpDir>>

\* the state of the analysis script
scriptVars ==
    <<pc, argv, warnings, classReflected, normalizedHierarchy, methodsToScan, diFiles,
      plugins, curFile, xmlOk, nDecls, globalPlugins, areaDiFiles, areaPlugins,
      scopeIdx, perScopeMatchedPlugins, methodIdx, methodResults, totalPluginCount,
      stdout, stderr, exitCode>>

\* the state of executePhpScript
executorVars ==
    <<execState, envFile, projectMarkers, dockerEnv, commands, cmdIdx, executed,
      staged, scriptResult, logged, args, removed>>

\* the state of executeMagerun2Command
magerunVars == <<magerunState, parseJson, execResult, magerunResult>>

\* the state of two overlapping calls of executePhpScript
overlapVars == <<calls, tmpDir>>

\* the state of the server
serverVars == <<executorVars, magerunVars, overlapVars>>

\* the state of module discovery, file collection and file reading
discoveryVars ==
    <<moduleStatusMap, existingFiles, discoveredModulePaths, collectScope, readNodes>>

(***************************************************************************)
(* Bounds of the model.                                                    *)
(***************************************************************************)
\* plugin elements read from all di.xml files of one run
MaxDecls == 2

(***************************************************************************)
(* PHP string helpers.                                                     *)
(***************************************************************************)
BS == "\\"

RECURSIVE Ltrim(_)
\* ltrim($s, "\\"): every leading namespace separator is stripped
Ltrim(s) == IF s # <<>> /\ Head(s) = BS THEN Ltrim(Tail(s)) ELSE s

\* empty($s) for a string held as a symbol sequence: "" and "0"
PhpEmpty(s) == s = <<>> \/ s = <<"0">>

\* empty($s) for a string held as a TLA+ string
PhpEmptyStr(s) == s = "" \/ s = "0"

Upper(c) == CASE c = "s" -> "S"
              [] c = "l" -> "L"
              [] OTHER -> c

Lower(c) == CASE c = "S" -> "s"
              [] c = "L" -> "l"
              [] OTHER -> c

\* ucfirst($s): the first character upper-cased, the rest unchanged
Ucfirst(s) == IF s = <<>> THEN s ELSE <<Upper(Head(s))>> \o Tail(s)

LowerStr(s) == [i \in 1..Len(s) |-> Lower(s[i])]

DigitVal(c) == CASE c = "0" -> 0 [] c = "1" -> 1 [] c = "2" -> 2 [] c = "3" -> 3
                 [] c = "4" -> 4 [] c = "5" -> 5 [] c = "6" -> 6 [] c = "7" -> 7
                 [] c = "8" -> 8 [] c = "9" -> 9 [] OTHER -> -1

RECURSIVE LeadingDigits(_, _)
LeadingDigits(s, acc) ==
    IF s # <<>> /\ DigitVal(Head(s)) >= 0
    THEN LeadingDigits(Tail(s), 10 * acc + DigitVal(Head(s)))
    ELSE acc

\* (int) $s for an attribute value: the leading decimal digits, 0 when there are none
IntCast(s) ==
    IF s # <<>> /\ Head(s) = "-" THEN 0 - LeadingDigits(Tail(s), 0)
    ELSE LeadingDigits(s, 0)

IsPrefix(p, s) == Len(p) <= Len(s) /\ SubSeq(s, 1, Len(p)) = p

Range(s) == {s[i] : i \in 1..Len(s)}

(***************************************************************************)
(* The project the script runs on: the reflective view of its PHP classes, *)
(* its module registry and status map.                                     *)
(***************************************************************************)
Foo == <<"Foo">>
Base == <<"Base">>
Iface == <<"Iface">>
Other == <<"Other">>
PlugBA == <<"PlugBA">>
PlugAll == <<"PlugAll">>
Missing == <<"Missing">>

save == <<"s", "ave">>
load == <<"l", "oad">>

\* What ReflectionClass reports of each loadable class: parent ("" for none),
\* getInterfaceNames(), getMethods(IS_PUBLIC) and the methods hasMethod() looks among.
ClassTable ==
    (Foo :> [parent |-> Base, interfaces |-> <<Iface>>, publicMethods |-> <<save, load>>,
             methods |-> {save, load}])
    @@ (Base :> [parent |-> <<>>, interfaces |-> <<Iface>>, publicMethods |-> <<load>>,
                 methods |-> {load}])
    @@ (Iface :> [parent |-> <<>>, interfaces |-> <<>>, publicMethods |-> <<load>>,
                  methods |-> {load}])
    @@ (PlugBA :> [parent |-> <<>>, interfaces |-> <<>>, publicMethods |-> <<>>,
                   methods |-> {<<"before", "S", "ave">>, <<"after", "S", "ave">>,
                                <<"around", "L", "oad">>}])
    @@ (PlugAll :> [parent |-> <<>>, interfaces |-> <<>>, publicMethods |-> <<>>,
                    methods |-> {<<"before", "S", "ave">>, <<"around", "s", "ave">>,
                                 <<"after", "S", "ave">>}])

\* The name a class lookup resolves: one leading namespace separator is ignored
LookupName(name) == IF name # <<>> /\ Head(name) = BS THEN Tail(name) ELSE name

\* new ReflectionClass($name) succeeds; otherwise it throws ReflectionException
Reflectable(name) == LookupName(name) \in DOMAIN ClassTable

RECURSIVE ParentChain(_)
\* the getParentClass() walk of Step 1
ParentChain(cls) ==
    IF ClassTable[cls].parent = <<>> THEN <<>>
    ELSE <<ClassTable[cls].parent>> \o ParentChain(ClassTable[cls].parent)

\* ReflectionClass::hasMethod: method names compare case-insensitively
HasMethod(cls, m) ==
    \E d \in ClassTable[LookupName(cls)].methods : LowerStr(d) = LowerStr(m)

magentoRootDir == <<"root">>

\* ComponentRegistrar::getPaths(MODULE), in registration order
allModulePaths ==
    << [name |-> "Mod_A", path |-> <<"root", "vendor", "a">>],
       [name |-> "Mod_B", path |-> <<"root", "app", "code", "b">>],
       [name |-> "Mod_C", path |-> <<"root", "vendor", "c">>],
       [name |-> "Mod_D", path |-> <<"root", "vendor", "d">>] >>

\* $config['modules'] of app/etc/config.php
moduleStatuses == ("Mod_A" :> 1) @@ ("Mod_B" :> 1) @@ ("Mod_C" :> 0)

\* a variant of the loop that takes every registered module
EveryRegisteredModule(registered, statuses) == registered

\* bootstrap.php lines 39-45: the registered modules whose status is set and is 1,
\* in registration order
BuildEnabledModulePaths(registered, statuses) ==
    LET Enabled(m) == m.name \in DOMAIN statuses /\ statuses[m.name] = 1
    IN SelectSeq(registered, Enabled)

\* $enabledModulePaths of the project
enabledModulePaths == BuildEnabledModulePaths(allModulePaths, moduleStatuses)

allScopes == <<"global", "adminhtml", "frontend", "crontab", "webapi_rest",
               "webapi_soap", "graphql">>

GlobalDi(m) == m.path \o <<"etc", "di.xml">>
AreaDi(m, scope) == m.path \o <<"etc", scope, "di.xml">>
AppDi(root) == root \o <<"app", "etc", "di.xml">>

RECURSIVE CollectModules(_, _, _)
CollectModules(modulePaths, scope, exists) ==
    IF modulePaths = <<>> THEN <<>>
    ELSE LET m == Head(modulePaths)
             g == IF GlobalDi(m) \in exists THEN <<GlobalDi(m)>> ELSE <<>>
             a == IF scope # "global" /\ AreaDi(m, scope) \in exists
                  THEN <<AreaDi(m, scope)>> ELSE <<>>
         IN g \o a \o CollectModules(Tail(modulePaths), scope, exists)

\* a variant of collectDiXmlFiles that puts app/etc/di.xml first
CollectAppDiFirst(enabledPaths, root, scope, exists) ==
    (IF AppDi(root) \in exists THEN <<AppDi(root)>> ELSE <<>>)
    \o CollectModules(enabledPaths, scope, exists)

\* collectDiXmlFiles of bootstrap.php; exists is the set of paths file_exists() accepts
collectDiXmlFiles(modulePaths, root, scope, exists) ==
    CollectModules(modulePaths, scope, exists)
    \o (IF AppDi(root) \in exists THEN <<AppDi(root)>> ELSE <<>>)

\* Step 4: the area di.xml files of one scope, in module order
AreaFilesOf(modulePaths, scope, exists) ==
    LET paths == [i \in 1..Len(modulePaths) |-> AreaDi(modulePaths[i], scope)]
        Exists(f) == f \in exists
    IN SelectSeq(paths, Exists)

(***************************************************************************)
(* PHP associative arrays keep insertion order: a sequence of key/value    *)
(* pairs with distinct keys.                                               *)
(***************************************************************************)
Keys(m) == {m[i].key : i \in 1..Len(m)}

Isset(m, k) == k \in Keys(m)

Get(m, k) == m[CHOOSE i \in 1..Len(m) : m[i].key = k].val

\* $m[$k] = $v: an existing key keeps its position, a new key goes last
Put(m, k, v) ==
    IF Isset(m, k)
    THEN [i \in 1..Len(m) |-> IF m[i].key = k THEN [key |-> k, val |-> v] ELSE m[i]]
    ELSE Append(m, [key |-> k, val |-> v])

(***************************************************************************)
(* parsePluginsFromFiles                                                   *)
(***************************************************************************)
\* $targetType . "::" . $pluginName
CompositeKey(targetType, pluginName) == targetType \o <<"::", pluginName>>

\* a variant of the foreach body that writes the full entry for every element,
\* with the type as the element gives it
OverwritePluginNode(ps, diFile, el) ==
    IF PhpEmpty(el.targetType) \/ PhpEmptyStr(el.name) THEN ps
    ELSE Put(ps, CompositeKey(el.targetType, el.name),
             [pluginName |-> el.name,
              pluginType |-> el.type,
              targetType |-> el.targetType,
              sortOrder |-> IF el.hasSortOrder THEN IntCast(el.sortOrder) ELSE 0,
              disabled |-> el.disabled,
              sourceFile |-> diFile])

\* a variant of the foreach body in which an element never resets what it does
\* not give: a redeclared entry keeps its disabled value and its sortOrder unless
\* the element has them, whether the element has a type or not
RedeclareKeepsFlags(ps, diFile, el) ==
    LET compositeKey == CompositeKey(el.targetType, el.name)
        old == Get(ps, compositeKey)
        known == Isset(ps, compositeKey)
    IN  IF PhpEmpty(el.targetType) \/ PhpEmptyStr(el.name) THEN ps
        ELSE Put(ps, compositeKey,
                 [pluginName |-> el.name,
                  pluginType |-> IF ~PhpEmpty(el.type) THEN el.type
                                 ELSE IF known THEN old.pluginType ELSE <<>>,
                  targetType |-> el.targetType,
                  sortOrder |-> IF el.hasSortOrder THEN IntCast(el.sortOrder)
                                ELSE IF known THEN old.sortOrder ELSE 0,
                  disabled |-> IF el.disabled # "" THEN el.disabled
                               ELSE IF known THEN old.disabled ELSE "",
                  sourceFile |-> diFile])

\* The body of the foreach over <plugin> nodes for one element el of file diFile:
\* el.targetType is the name of the enclosing <type>, el.hasSortOrder tells
\* isset($pluginNode["sortOrder"]), el.disabled is (string) $pluginNode["disabled"].
ParsePluginNode(ps, diFile, el) ==
    LET pluginName == el.name
        pluginType == el.type
        pluginSortOrder == IF el.hasSortOrder THEN IntCast(el.sortOrder) ELSE 0
        pluginDisabled == el.disabled
        compositeKey == CompositeKey(el.targetType, pluginName)
        old == Get(ps, compositeKey)
    IN  IF PhpEmpty(el.targetType) THEN ps
        ELSE IF PhpEmptyStr(pluginName) THEN ps
        ELSE IF Isset(ps, compositeKey) /\ PhpEmpty(pluginType)
        THEN Put(ps, compositeKey,
                 [old EXCEPT
                    !.disabled = IF pluginDisabled # "" THEN pluginDisabled ELSE @,
                    !.sortOrder = IF el.hasSortOrder THEN pluginSortOrder ELSE @,
                    !.sourceFile = diFile])
        ELSE Put(ps, compositeKey,
                 [pluginName |-> pluginName,
                  pluginType |-> IF ~PhpEmpty(pluginType) THEN pluginType
                                 ELSE IF Isset(ps, compositeKey) THEN old.pluginType
                                 ELSE <<>>,
                  targetType |-> el.targetType,
                  sortOrder |-> pluginSortOrder,
                  disabled |-> pluginDisabled,
                  sourceFile |-> diFile])

(***************************************************************************)
(* Step 5: the effective plugin list of one scope                          *)
(***************************************************************************)
RECURSIVE PutAll(_, _)
\* foreach ($areaPlugins as $key => $plugin) $effectivePlugins[$key] = $plugin
PutAll(m, area) ==
    IF area = <<>> THEN m
    ELSE PutAll(Put(m, Head(area).key, Head(area).val), Tail(area))

IsDisabled(plugin) == plugin.disabled = "true" \/ plugin.disabled = "1"

\* a variant of the unset() loop that tests for "true" alone
RemoveOnlyTrue(m) ==
    LET Enabled(e) == e.val.disabled # "true"
    IN SelectSeq(m, Enabled)

\* the unset() loop over disabled entries
RemoveDisabled(m) ==
    LET Enabled(e) == ~IsDisabled(e.val)
    IN SelectSeq(m, Enabled)

\* in_array($normalizedTarget, $normalizedHierarchy, true)
InHierarchy(target, hierarchy) == \E i \in 1..Len(hierarchy) : hierarchy[i] = target

\* $plugin["targetType"] = $normalizedTarget; $matched[] = $plugin
NormalizeTargets(kept) ==
    [i \in 1..Len(kept) |->
        [kept[i].val EXCEPT !.targetType = Ltrim(kept[i].val.targetType)]]

\* a variant of the hierarchy filter that keeps every entry
KeepAllTargets(m, hierarchy) == NormalizeTargets(m)

\* a variant of the hierarchy filter that compares the targetType as declared
FilterRawTarget(m, hierarchy) ==
    LET Matches(e) == InHierarchy(e.val.targetType, hierarchy)
    IN NormalizeTargets(SelectSeq(m, Matches))

\* the hierarchy filter: matching entries, their targetType normalised
FilterToHierarchy(m, hierarchy) ==
    LET Matches(e) == InHierarchy(Ltrim(e.val.targetType), hierarchy)
    IN NormalizeTargets(SelectSeq(m, Matches))

RECURSIVE RefineGlobal(_, _)
\* a variant of the scope merge that refines the global entry of a key as a parse
\* pass would: an area entry without a type keeps the global pluginType
RefineGlobal(global, area) ==
    IF area = <<>> THEN global
    ELSE LET key == Head(area).key
             own == Head(area).val
         IN RefineGlobal(
                Put(global, key,
                    IF Isset(global, key) /\ PhpEmpty(own.pluginType)
                    THEN [own EXCEPT !.pluginType = Get(global, key).pluginType]
                    ELSE own),
                Tail(area))

RECURSIVE AddNewKeysOnly(_, _)
\* a variant of the scope merge in which the global entry of a key is kept
AddNewKeysOnly(global, area) ==
    IF area = <<>> THEN global
    ELSE AddNewKeysOnly(IF Isset(global, Head(area).key) THEN global
                        ELSE Put(global, Head(area).key, Head(area).val),
                        Tail(area))

\* lines 115-122: the area entries are written over the copy of the global mapping
EffectivePlugins(global, area) == PutAll(global, area)

\* $matched of one scope, from the global mapping and the scope's area mapping
MatchedPlugins(global, area, hierarchy) ==
    FilterToHierarchy(RemoveDisabled(EffectivePlugins(global, area)), hierarchy)

(***************************************************************************)
(* filterPluginsByMethod, usort, buildExecutionOrder, analyzeMethod        *)
(***************************************************************************)
HookKinds == <<"before", "around", "after">>

\* $pluginMethods: hook kind -> hook method name
PluginMethods(ucfirstMethod) ==
    [k \in Range(HookKinds) |-> <<k>> \o ucfirstMethod]

\* determineModule
determineModule(diFile, modulePaths, root) ==
    LET hits == {i \in 1..Len(modulePaths) :
                    /\ IsPrefix(modulePaths[i].path, diFile)
                    /\ Len(diFile) > Len(modulePaths[i].path)}
    IN  IF hits # {}
        THEN modulePaths[CHOOSE i \in hits : \A j \in hits : i <= j].name
        ELSE IF IsPrefix(root \o <<"app", "etc">>, diFile)
                /\ Len(diFile) > Len(root) + 2
        THEN "app/etc"
        ELSE "<null>"

\* a variant of $foundMethods without the fallback to all three hooks
FoundByReflectionOnly(plugin, ucfirstMethod) ==
    LET pluginMethods == PluginMethods(ucfirstMethod)
    IN  [k \in {h \in DOMAIN pluginMethods :
                    /\ ~PhpEmpty(plugin.pluginType)
                    /\ Reflectable(plugin.pluginType)
                    /\ HasMethod(plugin.pluginType, pluginMethods[h])}
            |-> pluginMethods[k]]

\* $foundMethods of one plugin
FoundMethods(plugin, ucfirstMethod) ==
    LET pluginMethods == PluginMethods(ucfirstMethod)
    IN  IF ~PhpEmpty(plugin.pluginType)
        THEN IF Reflectable(plugin.pluginType)
             THEN [k \in {h \in DOMAIN pluginMethods :
                            HasMethod(plugin.pluginType, pluginMethods[h])}
                     |-> pluginMethods[k]]
             ELSE pluginMethods
        ELSE pluginMethods

\* $reflectionError of one plugin: <<>> stands for null
ReflectionError(plugin) ==
    IF ~PhpEmpty(plugin.pluginType)
    THEN IF Reflectable(plugin.pluginType) THEN <<>>
         ELSE <<"Could not reflect plugin class">> \o plugin.pluginType
    ELSE <<"Plugin has no type specified", plugin.pluginName>>

\* the plugin as appended to $filtered
Enrich(plugin, ucfirstMethod, modulePaths, root) ==
    (IF ReflectionError(plugin) # <<>>
     THEN [reflectionError |-> ReflectionError(plugin)]
     ELSE <<>>)
    @@ plugin
    @@ [methods |-> FoundMethods(plugin, ucfirstMethod),
        module |-> determineModule(plugin.sourceFile, modulePaths, root)]

\* $filtered[] = $plugin for each plugin kept
EnrichAll(kept, ucfirstMethod, modulePaths, root) ==
    [i \in 1..Len(kept) |-> Enrich(kept[i], ucfirstMethod, modulePaths, root)]

\* a variant of filterPluginsByMethod that keeps the plugins without a hook
KeepEveryPlugin(matchedPlugins, ucfirstMethod, modulePaths, root) ==
    EnrichAll(matchedPlugins, ucfirstMethod, modulePaths, root)

\* filterPluginsByMethod: the plugins with at least one hook, enriched
filterPluginsByMethod(matchedPlugins, ucfirstMethod, modulePaths, root) ==
    LET HasHook(plugin) == DOMAIN FoundMethods(plugin, ucfirstMethod) # {}
    IN EnrichAll(SelectSeq(matchedPlugins, HasHook), ucfirstMethod, modulePaths, root)

RECURSIVE InsertSorted(_, _)
\* x goes after every element that does not compare greater than it
InsertSorted(sorted, x) ==
    IF sorted = <<>> THEN <<x>>
    ELSE IF Head(sorted).sortOrder - x.sortOrder > 0 THEN <<x>> \o sorted
    ELSE <<Head(sorted)>> \o InsertSorted(Tail(sorted), x)

RECURSIVE InsertBeforeTies(_, _)
\* x goes before the first element that does not compare smaller than it
InsertBeforeTies(sorted, x) ==
    IF sorted = <<>> THEN <<x>>
    ELSE IF Head(sorted).sortOrder - x.sortOrder >= 0 THEN <<x>> \o sorted
    ELSE <<Head(sorted)>> \o InsertBeforeTies(Tail(sorted), x)

RECURSIVE UsortTiesReversed(_)
\* a variant of the sort that puts equal elements in the reverse of their order
UsortTiesReversed(s) ==
    IF s = <<>> THEN <<>>
    ELSE InsertBeforeTies(UsortTiesReversed(SubSeq(s, 1, Len(s) - 1)), s[Len(s)])

RECURSIVE Usort(_)
\* usort by $a["sortOrder"] - $b["sortOrder"]; the sort is stable (PHP 8.0 and
\* later): equal elements keep their order
Usort(s) ==
    IF s = <<>> THEN <<>>
    ELSE InsertSorted(Usort(SubSeq(s, 1, Len(s) - 1)), s[Len(s)])

\* a variant of array_reverse that keeps the order
SameOrder(s) == s

\* array_reverse
Reverse(s) == [i \in 1..Len(s) |-> s[Len(s) + 1 - i]]

\* a variant of the step list that names the hook after the phase label, not
\* after the plugin's methods mapping
StepsNamedByLabel(with, kind, step) ==
    [i \in 1..Len(with) |->
        [step |-> step,
         pluginName |-> with[i].pluginName,
         class |-> with[i].pluginType,
         method |-> <<kind>>,
         sortOrder |-> <<with[i].sortOrder>>]]

\* the steps of one phase for the plugins that have its hook
StepsFor(with, kind, step) ==
    [i \in 1..Len(with) |->
        [step |-> step,
         pluginName |-> with[i].pluginName,
         class |-> with[i].pluginType,
         method |-> with[i].methods[kind],
         sortOrder |-> <<with[i].sortOrder>>]]

\* the steps of one phase: one per plugin of the list that has the hook
PhaseSteps(sortedPlugins, kind, step) ==
    LET Has(p) == kind \in DOMAIN p.methods
    IN StepsFor(SelectSeq(sortedPlugins, Has), kind, step)

\* the original step: pluginName and sortOrder are null
OriginalStep(class, method) ==
    [step |-> "original", pluginName |-> "<null>", class |-> class,
     method |-> method, sortOrder |-> <<>>]

\* a variant of buildExecutionOrder that puts the original step first
OriginalStepFirst(sortedPlugins, class, method) ==
    <<OriginalStep(class, method)>>
    \o PhaseSteps(sortedPlugins, "before", "before")
    \o PhaseSteps(sortedPlugins, "around", "around (entering)")
    \o Reverse(PhaseSteps(sortedPlugins, "around", "around (exiting)"))
    \o PhaseSteps(sortedPlugins, "after", "after")

\* buildExecutionOrder: before, around (entering), original, around (exiting), after
buildExecutionOrder(sortedPlugins, class, method) ==
    PhaseSteps(sortedPlugins, "before", "before")
    \o PhaseSteps(sortedPlugins, "around", "around (entering)")
    \o <<OriginalStep(class, method)>>
    \o Reverse(PhaseSteps(sortedPlugins, "around", "around (exiting)"))
    \o PhaseSteps(sortedPlugins, "after", "after")

\* foreach ($filteredPlugins as &$plugin) $plugin["scope"] = $scope
StampScope(sorted, scope) == [i \in 1..Len(sorted) |-> sorted[i] @@ [scope |-> scope]]

\* $scopeResults[$scope] for the sorted, stamped plugins
ResultOf(stamped, class, method) ==
    [plugins |-> stamped,
     executionOrder |-> buildExecutionOrder(stamped, class, method),
     pluginCount |-> Len(stamped)]

\* the entry analyzeMethod records for one scope
ScopeResult(scope, filteredPlugins, class, method) ==
    ResultOf(StampScope(Usort(filteredPlugins), scope), class, method)

\* a variant of the iteration that records a scope without filtered plugins too
RecordEveryScope(scopeResults, scope, filteredPlugins, class, method) ==
    Append(scopeResults,
           [key |-> scope, val |-> ScopeResult(scope, filteredPlugins, class, method)])

\* one iteration of the loop of analyzeMethod: a scope without filtered plugins
\* is skipped
RecordScope(scopeResults, scope, filteredPlugins, class, method) ==
    IF filteredPlugins = <<>> THEN scopeResults
    ELSE Append(scopeResults,
                [key |-> scope, val |-> ScopeResult(scope, filteredPlugins, class, method)])

RECURSIVE AnalyzeScopes(_, _, _, _, _, _)
\* the loop of analyzeMethod over $perScopeMatchedPlugins
AnalyzeScopes(scopeResults, perScope, method, class, modulePaths, root) ==
    IF perScope = <<>> THEN scopeResults
    ELSE AnalyzeScopes(RecordScope(scopeResults, Head(perScope).key,
                                   filterPluginsByMethod(Head(perScope).val,
                                                         Ucfirst(method),
                                                         modulePaths, root),
                                   class, method),
                       Tail(perScope), method, class, modulePaths, root)

\* analyzeMethod: scope -> result, for the scopes with a plugin hooking the method
analyzeMethod(method, perScope, class, modulePaths, root) ==
    AnalyzeScopes(<<>>, perScope, method, class, modulePaths, root)

\* a variant of the sum that counts the scopes, not their plugins
CountScopes(results) == Len(results)

RECURSIVE SumCounts(_)
\* foreach ($scopeResults as $sr) $total += $sr["pluginCount"]
SumCounts(results) ==
    IF results = <<>> THEN 0
    ELSE Head(results).val.pluginCount + SumCounts(Tail(results))

(***************************************************************************)
(* Inputs: the command lines, the files and the <plugin> elements the      *)
(* model draws from.                                                       *)
(***************************************************************************)
\* the command lines: too few arguments, all-methods mode, single-method mode
ArgvSet ==
    { <<<<"get-plugins.php">>, magentoRootDir>>,
      <<<<"get-plugins.php">>, magentoRootDir, Foo>>,
      <<<<"get-plugins.php">>, magentoRootDir, <<BS>> \o Foo, save>>,
      <<<<"get-plugins.php">>, magentoRootDir, <<BS>> \o Other>>,
      <<<<"get-plugins.php">>, magentoRootDir, <<BS>> \o Other, save>> }

NoSortOrder == [hasSortOrder |-> FALSE, sortOrder |-> <<>>]
SortOrder10 == [hasSortOrder |-> TRUE, sortOrder |-> <<"1", "0">>]
SortOrder20 == [hasSortOrder |-> TRUE, sortOrder |-> <<"2", "0">>]

SortOrderAttrs == {NoSortOrder, SortOrder10, SortOrder20}

Element(t, n, y, s, z) ==
    [targetType |-> t, name |-> n, type |-> y, hasSortOrder |-> s.hasSortOrder,
     sortOrder |-> s.sortOrder, disabled |-> z]

\* the two elements the parser skips: no plugin name, no type name
SkippedElements ==
    {Element(Foo, "", PlugAll, NoSortOrder, ""), Element(<<>>, "p", PlugAll, NoSortOrder, "")}

\* The <plugin> elements the di.xml files of a whole run may hold, with the name
\* of their <type>: plugin p declared on the class (with a leading separator),
\* enabled, disabled="true" and disabled="false"; p redeclared without a type
\* (sortOrder only, disabled="1" only); p declared on the class written without
\* the separator, on its interface and on an unrelated type; another plugin q on
\* the class.
PluginElements ==
    {Element(<<BS>> \o Foo, "p", PlugAll, NoSortOrder, z) : z \in {"", "true", "false"}}
    \cup
    {Element(<<BS>> \o Foo, "p", <<>>, SortOrder20, ""),
     Element(<<BS>> \o Foo, "p", <<>>, NoSortOrder, "1"),
     Element(Foo, "p", PlugBA, NoSortOrder, ""),
     Element(Iface, "p", PlugAll, NoSortOrder, ""),
     Element(Other, "p", PlugAll, NoSortOrder, ""),
     Element(Foo, "q", PlugBA, SortOrder10, "")}

\* The <plugin> elements of one parse pass: plugin p of one type with every
\* combination of type, sortOrder and disabled attribute, plugin q of the same
\* type with and without a type, and the elements the parser skips.
ParserElements ==
    {Element(Foo, "p", y, s, z) :
        y \in {<<>>, PlugBA, PlugAll}, s \in {NoSortOrder, SortOrder20},
        z \in {"", "1", "false"}}
    \cup {Element(Foo, "q", PlugBA, SortOrder10, ""),
          Element(Foo, "q", <<>>, NoSortOrder, "1")}
    \cup SkippedElements

\* the di.xml paths file_exists() may accept in the global pass of a whole run:
\* those of an enabled and of a disabled module
GlobalCandidates == {GlobalDi(allModulePaths[1]), GlobalDi(allModulePaths[3])}

\* the di.xml paths file_exists() may accept in the global pass run on its own
ParserCandidates ==
    {GlobalDi(allModulePaths[1]), GlobalDi(allModulePaths[3]), AppDi(magentoRootDir)}

\* the area di.xml paths file_exists() may accept in Step 4
AreaCandidates ==
    {AreaDi(allModulePaths[1], "adminhtml"), AreaDi(allModulePaths[1], "frontend")}

(***************************************************************************)
(* The script, step by step                                                *)
(***************************************************************************)
\* The project of a run of the script: its status map and the module paths the
\* bootstrap builds from it; what file_exists() accepts is drawn where the script
\* asks (Steps 3 and 4).
ProjectAsConfigured ==
    /\ moduleStatusMap = moduleStatuses
    /\ existingFiles = {}
    /\ discoveredModulePaths = enabledModulePaths
    /\ collectScope = "global"
    /\ readNodes = <<>>

\* the script was started from a shell: no call of executePhpScript is under way
ExecutorIdle ==
    /\ execState = "idle"
    /\ envFile = "absent"
    /\ projectMarkers = {}
    /\ dockerEnv = <<>>
    /\ commands = <<>>
    /\ cmdIdx = 0
    /\ executed = <<>>
    /\ staged = FALSE
    /\ scriptResult = <<>>
    /\ logged = <<>>
    /\ args = <<>>
    /\ removed = <<>>

\* no call of executeMagerun2Command is under way
MagerunIdle ==
    /\ magerunState = "idle"
    /\ parseJson = FALSE
    /\ execResult = <<>>
    /\ magerunResult = <<>>

\* no calls of executePhpScript overlap
OverlapIdle ==
    /\ calls = <<>>
    /\ tmpDir = {}

\* the server runs no tool
ServerIdle == ExecutorIdle /\ MagerunIdle /\ OverlapIdle

MethodGiven == Len(argv) >= 4
ClassNameArg == argv[3]
MethodNameArg == argv[4]
Ended == exitCode # <<>>

Init ==
    /\ pc = "start"
    /\ argv \in ArgvSet
    /\ warnings = <<>>
    /\ classReflected = FALSE
    /\ normalizedHierarchy = <<>>
    /\ methodsToScan = <<>>
    /\ diFiles = <<>>
    /\ plugins = <<>>
    /\ curFile = 0
    /\ xmlOk = FALSE
    /\ nDecls = 0
    /\ globalPlugins = <<>>
    /\ areaDiFiles = <<>>
    /\ areaPlugins = <<>>
    /\ scopeIdx = 0
    /\ perScopeMatchedPlugins = <<>>
    /\ methodIdx = 0
    /\ methodResults = <<>>
    /\ totalPluginCount = 0
    /\ stdout = <<>>
    /\ stderr = <<>>
    /\ exitCode = <<>>
    /\ ProjectAsConfigured
    /\ ServerIdle

Exit(status, message) ==
    /\ pc' = "done"
    /\ exitCode' = <<status>>
    /\ stderr' = IF message = "" THEN stderr ELSE Append(stderr, message)

\* lines 17-23: the usage check
CheckUsage ==
    /\ pc = "start"
    /\ IF Len(argv) < 3
       THEN Exit(1, "Usage")
       ELSE pc' = "bootstrap" /\ UNCHANGED <<exitCode, stderr>>
    /\ UNCHANGED <<discoveryVars, serverVars>>
    /\ UNCHANGED <<argv, warnings, classReflected, normalizedHierarchy, methodsToScan,
                   diFiles, plugins, curFile, xmlOk, nDecls, globalPlugins, areaDiFiles,
                   areaPlugins, scopeIdx, perScopeMatchedPlugins, methodIdx,
                   methodResults, totalPluginCount, stdout>>

\* bootstrap.php lines 12-30: the project root, the autoloader and config.php
Bootstrap ==
    /\ pc = "bootstrap"
    /\ \E found \in {"ok", "no root", "no autoload", "no config"} :
          IF found = "ok"
          THEN pc' = "step1" /\ UNCHANGED <<exitCode, stderr>>
          ELSE Exit(1, found)
    /\ UNCHANGED <<discoveryVars, serverVars>>
    /\ UNCHANGED <<argv, warnings, classReflected, normalizedHierarchy, methodsToScan,
                   diFiles, plugins, curFile, xmlOk, nDecls, globalPlugins, areaDiFiles,
                   areaPlugins, scopeIdx, perScopeMatchedPlugins, methodIdx,
                   methodResults, totalPluginCount, stdout>>

\* $classHierarchy of Step 1 for a reflectable class
ClassHierarchyOf(name) ==
    <<Ltrim(name)>> \o ParentChain(LookupName(name))
    \o ClassTable[LookupName(name)].interfaces

NormalizeAll(names) == [i \in 1..Len(names) |-> Ltrim(names[i])]

ReflectWarning(name) == <<"Could not reflect class">> \o name

\* a variant of Step 1 whose catch block records no warning
Step1SilentFailure ==
    /\ pc = "step1"
    /\ classReflected' = Reflectable(ClassNameArg)
    /\ normalizedHierarchy' =
          IF Reflectable(ClassNameArg) THEN NormalizeAll(ClassHierarchyOf(ClassNameArg))
          ELSE NormalizeAll(<<Ltrim(ClassNameArg)>>)
    /\ pc' = "step2"
    /\ UNCHANGED <<discoveryVars, serverVars>>
    /\ UNCHANGED <<argv, warnings, methodsToScan, diFiles, plugins, curFile, xmlOk,
                   nDecls, globalPlugins, areaDiFiles, areaPlugins, scopeIdx,
                   perScopeMatchedPlugins, methodIdx, methodResults, totalPluginCount,
                   stdout, stderr, exitCode>>

\* Step 1: resolve the class hierarchy
Step1ResolveHierarchy ==
    /\ pc = "step1"
    /\ IF Reflectable(ClassNameArg)
       THEN /\ classReflected' = TRUE
            /\ normalizedHierarchy' = NormalizeAll(ClassHierarchyOf(ClassNameArg))
            /\ warnings' = warnings
       ELSE /\ classReflected' = FALSE
            /\ normalizedHierarchy' = NormalizeAll(<<Ltrim(ClassNameArg)>>)
            /\ warnings' = Append(warnings, ReflectWarning(ClassNameArg))
    /\ pc' = "step2"
    /\ UNCHANGED <<discoveryVars, serverVars>>
    /\ UNCHANGED <<argv, methodsToScan, diFiles, plugins, curFile, xmlOk, nDecls,
                   globalPlugins, areaDiFiles, areaPlugins, scopeIdx,
                   perScopeMatchedPlugins, methodIdx, methodResults, totalPluginCount,
                   stdout, stderr, exitCode>>

NoPublicMethodsWarning(name) == <<"Class has no public methods">> \o name

\* a variant of Step 2 that scans no method where the script gives up
Step2NeverGivesUp ==
    /\ pc = "step2"
    /\ methodsToScan' = IF MethodGiven THEN <<MethodNameArg>>
                        ELSE IF classReflected
                        THEN ClassTable[LookupName(ClassNameArg)].publicMethods
                        ELSE <<>>
    /\ pc' = "step3"
    /\ UNCHANGED <<discoveryVars, serverVars>>
    /\ UNCHANGED <<argv, warnings, classReflected, normalizedHierarchy, diFiles, plugins,
                   curFile, xmlOk, nDecls, globalPlugins, areaDiFiles, areaPlugins,
                   scopeIdx, perScopeMatchedPlugins, methodIdx, methodResults,
                   totalPluginCount, stdout, stderr, exitCode>>

\* Step 2: determine the methods to scan, or give up
Step2DetermineMethods ==
    /\ pc = "step2"
    /\ IF MethodGiven
       THEN /\ methodsToScan' = <<MethodNameArg>>
            /\ pc' = "step3"
            /\ UNCHANGED <<warnings, exitCode, stderr>>
       ELSE IF classReflected
       THEN /\ methodsToScan' = ClassTable[LookupName(ClassNameArg)].publicMethods
            /\ warnings' = IF methodsToScan' = <<>>
                           THEN Append(warnings, NoPublicMethodsWarning(ClassNameArg))
                           ELSE warnings
            /\ pc' = "step3"
            /\ UNCHANGED <<exitCode, stderr>>
       ELSE /\ Exit(1, "Cannot determine methods")
            /\ UNCHANGED <<methodsToScan, warnings>>
    /\ UNCHANGED <<discoveryVars, serverVars>>
    /\ UNCHANGED <<argv, classReflected, normalizedHierarchy, diFiles, plugins, curFile,
                   xmlOk, nDecls, globalPlugins, areaDiFiles, areaPlugins, scopeIdx,
                   perScopeMatchedPlugins, methodIdx, methodResults, totalPluginCount,
                   stdout>>

\* Step 3: collect the global di.xml files and enter parsePluginsFromFiles
Step3CollectGlobal ==
    /\ pc = "step3"
    /\ \E exists \in SUBSET GlobalCandidates :
          diFiles' = collectDiXmlFiles(enabledModulePaths, argv[2], "global", exists)
    /\ plugins' = <<>>
    /\ curFile' = 0
    /\ xmlOk' = FALSE
    /\ pc' = "parse_global"
    /\ UNCHANGED <<discoveryVars, serverVars>>
    /\ UNCHANGED <<argv, warnings, classReflected, normalizedHierarchy, methodsToScan,
                   nDecls, globalPlugins, areaDiFiles, areaPlugins, scopeIdx,
                   perScopeMatchedPlugins, methodIdx, methodResults, totalPluginCount,
                   stdout, stderr, exitCode>>

Parsing == pc \in {"parse_global", "parse_area"}

\* a variant of the file loop in which a file that fails to load ends the pass:
\* the mapping built so far is dropped and a warning is recorded
LoadXmlFileOrGiveUp ==
    /\ Parsing
    /\ curFile < Len(diFiles)
    /\ \E loaded \in BOOLEAN :
          /\ xmlOk' = loaded
          /\ curFile' = IF loaded THEN curFile + 1 ELSE Len(diFiles)
          /\ plugins' = IF loaded THEN plugins ELSE <<>>
          /\ warnings' = IF loaded THEN warnings
                         ELSE Append(warnings, <<"cannot parse">> \o diFiles[curFile + 1])
    /\ UNCHANGED <<discoveryVars, serverVars>>
    /\ UNCHANGED <<pc, argv, classReflected, normalizedHierarchy,
                   methodsToScan, diFiles, nDecls, globalPlugins, areaDiFiles,
                   areaPlugins, scopeIdx, perScopeMatchedPlugins, methodIdx,
                   methodResults, totalPluginCount, stdout, stderr, exitCode>>

\* parsePluginsFromFiles: the next file is loaded, or fails to load and is skipped
LoadXmlFile ==
    /\ Parsing
    /\ curFile < Len(diFiles)
    /\ curFile' = curFile + 1
    /\ xmlOk' \in BOOLEAN
    /\ UNCHANGED <<discoveryVars, serverVars>>
    /\ UNCHANGED <<pc, argv, warnings, classReflected, normalizedHierarchy,
                   methodsToScan, diFiles, plugins, nDecls, globalPlugins, areaDiFiles,
                   areaPlugins, scopeIdx, perScopeMatchedPlugins, methodIdx,
                   methodResults, totalPluginCount, stdout, stderr, exitCode>>

\* parsePluginsFromFiles: the next <plugin> element of the loaded file, one of elements
ParseElementFrom(elements) ==
    /\ Parsing
    /\ curFile >= 1
    /\ xmlOk
    /\ nDecls < MaxDecls
    /\ \E el \in elements :
          plugins' = ParsePluginNode(plugins, diFiles[curFile], el)
    /\ nDecls' = nDecls + 1
    /\ UNCHANGED <<discoveryVars, serverVars>>
    /\ UNCHANGED <<pc, argv, warnings, classReflected, normalizedHierarchy,
                   methodsToScan, diFiles, curFile, xmlOk, globalPlugins, areaDiFiles,
                   areaPlugins, scopeIdx, perScopeMatchedPlugins, methodIdx,
                   methodResults, totalPluginCount, stdout, stderr, exitCode>>

ParsePluginElement == ParseElementFrom(PluginElements)

\* Step 3: parsePluginsFromFiles returns the global mapping
Step3Return ==
    /\ pc = "parse_global"
    /\ curFile = Len(diFiles)
    /\ globalPlugins' = plugins
    /\ plugins' = <<>>
    /\ diFiles' = <<>>
    /\ curFile' = 0
    /\ xmlOk' = FALSE
    /\ pc' = "step4"
    /\ UNCHANGED <<discoveryVars, serverVars>>
    /\ UNCHANGED <<argv, warnings, classReflected, normalizedHierarchy, methodsToScan,
                   nDecls, areaDiFiles, areaPlugins, scopeIdx, perScopeMatchedPlugins,
                   methodIdx, methodResults, totalPluginCount, stdout, stderr, exitCode>>

RECURSIVE AreaFileMap(_, _, _)
\* $areaDiFiles: the scopes with at least one area file, in $allScopes order
AreaFileMap(enabledPaths, scopes, exists) ==
    IF scopes = <<>> THEN <<>>
    ELSE LET scope == Head(scopes)
             files == AreaFilesOf(enabledPaths, scope, exists)
             rest == AreaFileMap(enabledPaths, Tail(scopes), exists)
         IN  IF scope = "global" \/ files = <<>> THEN rest
             ELSE <<[key |-> scope, val |-> files]>> \o rest

\* Step 4: collect the area di.xml files of every scope
Step4CollectAreaFiles ==
    /\ pc = "step4"
    /\ \E exists \in SUBSET AreaCandidates :
          /\ areaDiFiles' = AreaFileMap(enabledModulePaths, allScopes, exists)
    /\ scopeIdx' = 1
    /\ pc' = "step5"
    /\ UNCHANGED <<discoveryVars, serverVars>>
    /\ UNCHANGED <<argv, warnings, classReflected, normalizedHierarchy, methodsToScan,
                   diFiles, plugins, curFile, xmlOk, nDecls, globalPlugins, areaPlugins,
                   perScopeMatchedPlugins, methodIdx, methodResults, totalPluginCount,
                   stdout, stderr, exitCode>>

CurScope == allScopes[scopeIdx]

HasAreaFiles(scope) == scope # "global" /\ Isset(areaDiFiles, scope)

\* Step 5: the scope has area files, parsePluginsFromFiles is entered for them
Step5ParseArea ==
    /\ pc = "step5"
    /\ scopeIdx <= Len(allScopes)
    /\ HasAreaFiles(CurScope)
    /\ diFiles' = Get(areaDiFiles, CurScope)
    /\ plugins' = <<>>
    /\ curFile' = 0
    /\ xmlOk' = FALSE
    /\ pc' = "parse_area"
    /\ UNCHANGED <<discoveryVars, serverVars>>
    /\ UNCHANGED <<argv, warnings, classReflected, normalizedHierarchy, methodsToScan,
                   nDecls, globalPlugins, areaDiFiles, areaPlugins, scopeIdx,
                   perScopeMatchedPlugins, methodIdx, methodResults, totalPluginCount,
                   stdout, stderr, exitCode>>

\* if (!empty($matched)) $perScopeMatchedPlugins[$scope] = $matched
RecordMatched(matchedSoFar, scope, matched) ==
    IF matched # <<>> THEN Append(matchedSoFar, [key |-> scope, val |-> matched])
    ELSE matchedSoFar

RECURSIVE RunScopes(_, _, _, _)
\* The loop of Step 5 from scope i on, up to the next scope that has area files
\* to parse (or the end): each scope without area files takes the global mapping,
\* whose matching entries are matched.  The result holds $perScopeMatchedPlugins,
\* the area mappings and the scope index reached.
RunScopes(i, matched, matchedSoFar, areaSoFar) ==
    IF i > Len(allScopes) \/ HasAreaFiles(allScopes[i])
    THEN [idx |-> i, matched |-> matchedSoFar, area |-> areaSoFar]
    ELSE RunScopes(i + 1, matched,
                   RecordMatched(matchedSoFar, allScopes[i], matched),
                   Append(areaSoFar, [key |-> allScopes[i], val |-> <<>>]))

\* the loop of Step 5 is left at scope index st.idx
LeaveScopes(st) ==
    /\ perScopeMatchedPlugins' = st.matched
    /\ areaPlugins' = st.area
    /\ scopeIdx' = st.idx
    /\ pc' = IF st.idx > Len(allScopes) THEN "step6" ELSE "step5"

\* Step 5: the iterations for the scopes without area files
Step5Scopes ==
    /\ pc = "step5"
    /\ scopeIdx <= Len(allScopes)
    /\ ~HasAreaFiles(CurScope)
    /\ LeaveScopes(RunScopes(scopeIdx,
                             MatchedPlugins(globalPlugins, <<>>, normalizedHierarchy),
                             perScopeMatchedPlugins, areaPlugins))
    /\ UNCHANGED <<discoveryVars, serverVars>>
    /\ UNCHANGED <<argv, warnings, classReflected, normalizedHierarchy, methodsToScan,
                   diFiles, plugins, curFile, xmlOk, nDecls, globalPlugins, areaDiFiles,
                   methodIdx, methodResults, totalPluginCount, stdout, stderr, exitCode>>

\* a variant of the iteration in which $effectivePlugins is the global mapping
\* itself, not a copy: the entries of the scope stay in it for the later scopes
Step5AreaScopeShared ==
    /\ pc = "parse_area"
    /\ curFile = Len(diFiles)
    /\ perScopeMatchedPlugins' =
          RecordMatched(perScopeMatchedPlugins, CurScope,
                        MatchedPlugins(globalPlugins, plugins, normalizedHierarchy))
    /\ areaPlugins' = Append(areaPlugins, [key |-> CurScope, val |-> plugins])
    /\ globalPlugins' = EffectivePlugins(globalPlugins, plugins)
    /\ scopeIdx' = scopeIdx + 1
    /\ pc' = IF scopeIdx = Len(allScopes) THEN "step6" ELSE "step5"
    /\ plugins' = <<>>
    /\ diFiles' = <<>>
    /\ curFile' = 0
    /\ xmlOk' = FALSE
    /\ UNCHANGED <<discoveryVars, serverVars>>
    /\ UNCHANGED <<argv, warnings, classReflected, normalizedHierarchy, methodsToScan,
                   nDecls, areaDiFiles, methodIdx, methodResults, totalPluginCount,
                   stdout, stderr, exitCode>>

\* Step 5: parsePluginsFromFiles returns $areaPlugins and the iteration of the
\* current scope is completed
Step5AreaScope ==
    /\ pc = "parse_area"
    /\ curFile = Len(diFiles)
    /\ perScopeMatchedPlugins' =
          RecordMatched(perScopeMatchedPlugins, CurScope,
                        MatchedPlugins(globalPlugins, plugins, normalizedHierarchy))
    /\ areaPlugins' = Append(areaPlugins, [key |-> CurScope, val |-> plugins])
    /\ scopeIdx' = scopeIdx + 1
    /\ pc' = IF scopeIdx = Len(allScopes) THEN "step6" ELSE "step5"
    /\ plugins' = <<>>
    /\ diFiles' = <<>>
    /\ curFile' = 0
    /\ xmlOk' = FALSE
    /\ UNCHANGED <<discoveryVars, serverVars>>
    /\ UNCHANGED <<argv, warnings, classReflected, normalizedHierarchy, methodsToScan,
                   nDecls, globalPlugins, areaDiFiles, methodIdx, methodResults, totalPluginCount,
                   stdout, stderr, exitCode>>

\* the document of single-method mode
SingleOutput(results) ==
    [targetClass |-> Ltrim(ClassNameArg),
     targetMethod |-> MethodNameArg,
     classHierarchy |-> normalizedHierarchy,
     scopeResults |-> results,
     totalPluginCount |-> SumCounts(results),
     warnings |-> warnings]

\* Step 6, single-method mode
Step6SingleMethod ==
    /\ pc = "step6"
    /\ MethodGiven
    /\ stdout' = Append(stdout,
                        SingleOutput(analyzeMethod(MethodNameArg, perScopeMatchedPlugins,
                                                   ClassNameArg, enabledModulePaths,
                                                   argv[2])))
    /\ exitCode' = <<0>>
    /\ pc' = "done"
    /\ UNCHANGED <<discoveryVars, serverVars>>
    /\ UNCHANGED <<argv, warnings, classReflected, normalizedHierarchy, methodsToScan,
                   diFiles, plugins, curFile, xmlOk, nDecls, globalPlugins, areaDiFiles,
                   areaPlugins, scopeIdx, perScopeMatchedPlugins, methodIdx,
                   methodResults, totalPluginCount, stderr>>

\* $methodResults and $totalPluginCount after the scope results of one method
RecordMethod(method, scopeResults) ==
    /\ methodResults' =
          IF scopeResults # <<>>
          THEN Put(methodResults, method,
                   [scopeResults |-> scopeResults,
                    totalPluginCount |-> SumCounts(scopeResults)])
          ELSE methodResults
    /\ totalPluginCount' = totalPluginCount + SumCounts(scopeResults)

\* Step 6, all-methods mode: one iteration of the loop over $methodsToScan
Step6ScanMethod ==
    /\ pc = "step6"
    /\ ~MethodGiven
    /\ methodIdx < Len(methodsToScan)
    /\ methodIdx' = methodIdx + 1
    /\ RecordMethod(methodsToScan[methodIdx + 1],
                    analyzeMethod(methodsToScan[methodIdx + 1], perScopeMatchedPlugins,
                                  ClassNameArg, enabledModulePaths, argv[2]))
    /\ UNCHANGED <<discoveryVars, serverVars>>
    /\ UNCHANGED <<pc, argv, warnings, classReflected, normalizedHierarchy,
                   methodsToScan, diFiles, plugins, curFile, xmlOk, nDecls,
                   globalPlugins, areaDiFiles, areaPlugins, scopeIdx,
                   perScopeMatchedPlugins, stdout, stderr, exitCode>>

\* the document of all-methods mode
AllMethodsOutput ==
    [targetClass |-> Ltrim(ClassNameArg),
     targetMethod |-> <<>>,
     classHierarchy |-> normalizedHierarchy,
     methodResults |-> methodResults,
     methodsChecked |-> Len(methodsToScan),
     methodsWithPlugins |-> Len(methodResults),
     totalPluginCount |-> totalPluginCount,
     warnings |-> warnings]

\* Step 6, all-methods mode: the loop is over, the document is written
Step6EmitAll ==
    /\ pc = "step6"
    /\ ~MethodGiven
    /\ methodIdx = Len(methodsToScan)
    /\ stdout' = Append(stdout, AllMethodsOutput)
    /\ exitCode' = <<0>>
    /\ pc' = "done"
    /\ UNCHANGED <<discoveryVars, serverVars>>
    /\ UNCHANGED <<argv, warnings, classReflected, normalizedHierarchy, methodsToScan,
                   diFiles, plugins, curFile, xmlOk, nDecls, globalPlugins, areaDiFiles,
                   areaPlugins, scopeIdx, perScopeMatchedPlugins, methodIdx,
                   methodResults, totalPluginCount, stderr>>

Next ==
    \/ CheckUsage
    \/ Bootstrap
    \/ Step1ResolveHierarchy
    \/ Step2DetermineMethods
    \/ Step3CollectGlobal
    \/ LoadXmlFile
    \/ ParsePluginElement
    \/ Step3Return
    \/ Step4CollectAreaFiles
    \/ Step5ParseArea
    \/ Step5Scopes
    \/ Step5AreaScope
    \/ Step6SingleMethod
    \/ Step6ScanMethod
    \/ Step6EmitAll

Spec == Init /\ [][Next]_vars

(***************************************************************************)
(* parsePluginsFromFiles on its own: the global pass of Step 3 for one     *)
(* command line, over every <plugin> element of ParserElements.            *)
(***************************************************************************)
ParserArgv == <<<<"get-plugins.php">>, magentoRootDir, Foo, save>>

InitParser ==
    /\ pc = "parse_global"
    /\ argv = ParserArgv
    /\ warnings = <<>>
    /\ classReflected = TRUE
    /\ normalizedHierarchy = NormalizeAll(ClassHierarchyOf(Foo))
    /\ methodsToScan = <<save>>
    /\ \E exists \in SUBSET ParserCandidates :
          diFiles = collectDiXmlFiles(enabledModulePaths, magentoRootDir, "global", exists)
    /\ plugins = <<>>
    /\ curFile = 0
    /\ xmlOk = FALSE
    /\ nDecls = 0
    /\ globalPlugins = <<>>
    /\ areaDiFiles = <<>>
    /\ areaPlugins = <<>>
    /\ scopeIdx = 0
    /\ perScopeMatchedPlugins = <<>>
    /\ methodIdx = 0
    /\ methodResults = <<>>
    /\ totalPluginCount = 0
    /\ stdout = <<>>
    /\ stderr = <<>>
    /\ exitCode = <<>>
    /\ ProjectAsConfigured
    /\ ServerIdle

\* parsePluginsFromFiles: the next <plugin> element of the loaded file, one of
\* ParserElements; the element and its file are kept in readNodes
ParseAnyElement ==
    /\ Parsing
    /\ curFile >= 1
    /\ xmlOk
    /\ nDecls < MaxDecls
    /\ \E el \in ParserElements :
          /\ plugins' = ParsePluginNode(plugins, diFiles[curFile], el)
          /\ readNodes' = Append(readNodes, [file |-> diFiles[curFile], node |-> el])
    /\ nDecls' = nDecls + 1
    /\ UNCHANGED <<moduleStatusMap, existingFiles, discoveredModulePaths, collectScope,
                   serverVars>>
    /\ UNCHANGED <<pc, argv, warnings, classReflected, normalizedHierarchy,
                   methodsToScan, diFiles, curFile, xmlOk, globalPlugins, areaDiFiles,
                   areaPlugins, scopeIdx, perScopeMatchedPlugins, methodIdx,
                   methodResults, totalPluginCount, stdout, stderr, exitCode>>

NextParser ==
    \/ LoadXmlFile
    \/ ParseAnyElement
    \/ Step3Return

SpecParser == InitParser /\ [][NextParser]_vars

(***************************************************************************)
(* Step 6 on its own: analyzeMethod (filterPluginsByMethod, usort,         *)
(* buildExecutionOrder) at the end of Step 5, for a project whose global   *)
(* di.xml declares up to MaxPlugins enabled plugins on the class, whose    *)
(* frontend di.xml disables the first of them and whose other area files   *)
(* disable them all.                                                       *)
(***************************************************************************)
MaxPlugins == 3

AnalysisNames == <<"p", "q", "r", "s", "t">>

\* the entry of the i-th declared plugin: any type, any sortOrder
AnalysisEntries(i) ==
    {[pluginName |-> AnalysisNames[i], pluginType |-> y, targetType |-> Foo,
      sortOrder |-> o, disabled |-> "", sourceFile |-> GlobalDi(allModulePaths[1])] :
        y \in {<<>>, PlugBA, PlugAll, Missing}, o \in {10, 20}}

RECURSIVE AnalysisMappings(_)
\* the global mappings of n plugins, in declaration order
AnalysisMappings(n) ==
    IF n = 0 THEN {<<>>}
    ELSE {Append(m, [key |-> CompositeKey(e.targetType, e.pluginName), val |-> e]) :
            m \in AnalysisMappings(n - 1), e \in AnalysisEntries(n)}

AnalysisArgvSet ==
    { <<<<"get-plugins.php">>, magentoRootDir, Foo>>,
      <<<<"get-plugins.php">>, magentoRootDir, <<BS>> \o Foo, save>>,
      <<<<"get-plugins.php">>, magentoRootDir, Foo, load>> }

\* the area mapping of a scope: the global entries it declares disabled
AnalysisArea(scope, global) ==
    LET n == IF scope = "frontend" THEN 1 ELSE Len(global)
    IN [i \in 1..n |->
          [key |-> global[i].key,
           val |-> [global[i].val EXCEPT !.disabled = "true",
                                         !.sourceFile = AreaDi(allModulePaths[1], scope)]]]

RECURSIVE AnalysisScopes(_, _, _)
\* Step 5 over the scopes from i on: $perScopeMatchedPlugins
AnalysisScopes(i, global, hierarchy) ==
    IF i > Len(allScopes) THEN <<>>
    ELSE LET area == IF i = 1 THEN <<>> ELSE AnalysisArea(allScopes[i], global)
             matched == MatchedPlugins(global, area, hierarchy)
             rest == AnalysisScopes(i + 1, global, hierarchy)
         IN IF matched # <<>> THEN <<[key |-> allScopes[i], val |-> matched]>> \o rest
            ELSE rest

InitAnalysis ==
    /\ pc = "step6"
    /\ argv \in AnalysisArgvSet
    /\ warnings = <<>>
    /\ classReflected = TRUE
    /\ normalizedHierarchy = NormalizeAll(ClassHierarchyOf(argv[3]))
    /\ methodsToScan = IF Len(argv) >= 4 THEN <<argv[4]>>
                       ELSE ClassTable[LookupName(argv[3])].publicMethods
    /\ diFiles = <<>>
    /\ plugins = <<>>
    /\ curFile = 0
    /\ xmlOk = FALSE
    /\ \E n \in 1..MaxPlugins :
          /\ nDecls = n
          /\ globalPlugins \in AnalysisMappings(n)
    /\ areaDiFiles = [i \in 1..(Len(allScopes) - 1) |->
                        [key |-> allScopes[i + 1],
                         val |-> <<AreaDi(allModulePaths[1], allScopes[i + 1])>>]]
    /\ areaPlugins = [i \in 1..Len(allScopes) |->
                        [key |-> allScopes[i],
                         val |-> IF i = 1 THEN <<>>
                                 ELSE AnalysisArea(allScopes[i], globalPlugins)]]
    /\ perScopeMatchedPlugins = AnalysisScopes(1, globalPlugins, normalizedHierarchy)
    /\ scopeIdx = Len(allScopes) + 1
    /\ methodIdx = 0
    /\ methodResults = <<>>
    /\ totalPluginCount = 0
    /\ stdout = <<>>
    /\ stderr = <<>>
    /\ exitCode = <<>>
    /\ ProjectAsConfigured
    /\ ServerIdle

NextAnalysis ==
    \/ Step6SingleMethod
    \/ Step6ScanMethod
    \/ Step6EmitAll

SpecAnalysis == InitAnalysis /\ [][NextAnalysis]_vars

(***************************************************************************)
(* Module discovery and file collection on their own: the bootstrap builds *)
(* $enabledModulePaths from the status map, collectDiXmlFiles is called    *)
(* for a scope, the files it returns are parsed, and Step 4 collects the   *)
(* area files.  The status map, the scope and the files on disk (those of  *)
(* excluded modules among them) are drawn in the initial state.            *)
(***************************************************************************)
\* every registered module enabled
AllEnabled == ("Mod_A" :> 1) @@ ("Mod_B" :> 1) @@ ("Mod_C" :> 1) @@ ("Mod_D" :> 1)

\* the first module disabled, the others enabled but for the one left out
FirstDisabled == ("Mod_A" :> 0) @@ ("Mod_C" :> 1) @@ ("Mod_D" :> 1)

\* The status maps: that of the project, every module enabled, the first
\* disabled, and the empty map of a config.php without a modules entry.
StatusMaps == {moduleStatuses, AllEnabled, FirstDisabled, <<>>}

\* the paths that may exist on disk
DiskCandidates ==
    {GlobalDi(allModulePaths[1]), AreaDi(allModulePaths[1], "adminhtml"),
     GlobalDi(allModulePaths[3]), AreaDi(allModulePaths[3], "adminhtml"),
     GlobalDi(allModulePaths[4]), AppDi(magentoRootDir)}

\* the scopes collectDiXmlFiles is called for
CollectScopes == {"global", "adminhtml"}

\* the one <plugin> element the files hold
DeclaredElements == {Element(Foo, "p", PlugAll, NoSortOrder, "")}

InitDiscovery ==
    /\ pc = "discover"
    /\ argv = ParserArgv
    /\ warnings = <<>>
    /\ classReflected = TRUE
    /\ normalizedHierarchy = NormalizeAll(ClassHierarchyOf(Foo))
    /\ methodsToScan = <<save>>
    /\ diFiles = <<>>
    /\ plugins = <<>>
    /\ curFile = 0
    /\ xmlOk = FALSE
    /\ nDecls = 0
    /\ globalPlugins = <<>>
    /\ areaDiFiles = <<>>
    /\ areaPlugins = <<>>
    /\ scopeIdx = 0
    /\ perScopeMatchedPlugins = <<>>
    /\ methodIdx = 0
    /\ methodResults = <<>>
    /\ totalPluginCount = 0
    /\ stdout = <<>>
    /\ stderr = <<>>
    /\ exitCode = <<>>
    /\ moduleStatusMap \in StatusMaps
    /\ existingFiles \in SUBSET DiskCandidates
    /\ discoveredModulePaths = <<>>
    /\ collectScope \in CollectScopes
    /\ readNodes = <<>>
    /\ ServerIdle

\* bootstrap.php lines 32-45: $enabledModulePaths is built from the registrar's
\* paths and the status map
DiscoverModules ==
    /\ pc = "discover"
    /\ discoveredModulePaths' = BuildEnabledModulePaths(allModulePaths, moduleStatusMap)
    /\ pc' = "step3"
    /\ UNCHANGED <<moduleStatusMap, existingFiles, collectScope, readNodes, serverVars>>
    /\ UNCHANGED <<argv, warnings, classReflected, normalizedHierarchy, methodsToScan,
                   diFiles, plugins, curFile, xmlOk, nDecls, globalPlugins, areaDiFiles,
                   areaPlugins, scopeIdx, perScopeMatchedPlugins, methodIdx,
                   methodResults, totalPluginCount, stdout, stderr, exitCode>>

\* the call of collectDiXmlFiles for the enabled modules and the scope, whose
\* files parsePluginsFromFiles is then given (Step 3 calls it for "global")
CollectFiles ==
    /\ pc = "step3"
    /\ diFiles' = collectDiXmlFiles(discoveredModulePaths, argv[2], collectScope,
                                    existingFiles)
    /\ plugins' = <<>>
    /\ curFile' = 0
    /\ xmlOk' = FALSE
    /\ pc' = "parse_global"
    /\ UNCHANGED <<discoveryVars, serverVars>>
    /\ UNCHANGED <<argv, warnings, classReflected, normalizedHierarchy, methodsToScan,
                   nDecls, globalPlugins, areaDiFiles, areaPlugins, scopeIdx,
                   perScopeMatchedPlugins, methodIdx, methodResults, totalPluginCount,
                   stdout, stderr, exitCode>>

ParseDeclaredElement == ParseElementFrom(DeclaredElements)

\* Step 4 over the enabled modules the bootstrap has built
CollectAreaFiles ==
    /\ pc = "step4"
    /\ areaDiFiles' = AreaFileMap(discoveredModulePaths, allScopes, existingFiles)
    /\ scopeIdx' = 1
    /\ pc' = "step5"
    /\ UNCHANGED <<discoveryVars, serverVars>>
    /\ UNCHANGED <<argv, warnings, classReflected, normalizedHierarchy, methodsToScan,
                   diFiles, plugins, curFile, xmlOk, nDecls, globalPlugins, areaPlugins,
                   perScopeMatchedPlugins, methodIdx, methodResults, totalPluginCount,
                   stdout, stderr, exitCode>>

NextDiscovery ==
    \/ DiscoverModules
    \/ CollectFiles
    \/ LoadXmlFile
    \/ ParseDeclaredElement
    \/ Step3Return
    \/ CollectAreaFiles

SpecDiscovery == InitDiscovery /\ [][NextDiscovery]_vars

(***************************************************************************)
(* executePhpScript (php-executor.ts): a Docker environment is detected    *)
(* from the files of the project root, the PHP scripts are copied under    *)
(* the root and the script is run in the container, one command after the  *)
(* other until one succeeds; if none does, or no environment was detected, *)
(* the script is run with the local PHP.                                   *)
(***************************************************************************)
RECURSIVE EscapeQuotes(_)
\* arg.replace(/'/g, "'\\''")
EscapeQuotes(arg) ==
    IF arg = <<>> THEN <<>>
    ELSE (IF Head(arg) = "'" THEN <<"'", BS, "'", "'">> ELSE <<Head(arg)>>)
         \o EscapeQuotes(Tail(arg))

\* shellQuote
shellQuote(arg) == <<"'">> \o EscapeQuotes(arg) \o <<"'">>

\* args.map(a => shellQuote(a))
QuotedArgs(argList) == [i \in 1..Len(argList) |-> shellQuote(argList[i])]

containerRoot == <<"/var/www/html">>

\* the service names tried for docker-compose, as the variant orders them
ServicesPhpFirst == <<"php", "php-fpm", "phpfpm">>

\* the service names tried for docker-compose
ComposeServices == <<"phpfpm", "php-fpm", "php">>

\* A command line: the words that run it in the container (none for the local
\* PHP), whether the php command is passed as one double-quoted word, the script
\* path and the quoted arguments.
Command(runner, asOneWord, scriptPath, argList) ==
    [runner |-> runner, asOneWord |-> asOneWord, php |-> "php",
     script |-> scriptPath, args |-> QuotedArgs(argList)]

\* dockerEnv.buildCommands of each environment type
buildCommands(type, scriptPath, argList) ==
    CASE type = "warden" ->
            <<Command(<<"warden", "shell", "-c">>, TRUE, scriptPath, argList)>>
      [] type = "ddev" ->
            <<Command(<<"ddev", "exec">>, FALSE, scriptPath, argList)>>
      [] type = "docker-magento" ->
            <<Command(<<"bin/clinotty">>, FALSE, scriptPath, argList)>>
      [] type = "docker-compose" ->
            [i \in 1..Len(ComposeServices) |->
                Command(<<"docker", "compose", "exec", "-T", ComposeServices[i]>>,
                        FALSE, scriptPath, argList)]

\* detectDockerEnvironment: Warden, then DDEV, then docker-magento, then
\* docker-compose; <<>> stands for null
detectDockerEnvironment(env, markers) ==
    LET Environment(type) == <<[type |-> type, containerRoot |-> containerRoot]>>
    IN  IF env = "WARDEN_ENV_TYPE" THEN Environment("warden")
        ELSE IF ".ddev" \in markers THEN Environment("ddev")
        ELSE IF "bin/clinotty" \in markers THEN Environment("docker-magento")
        ELSE IF "docker-compose.yml" \in markers \/ "compose.yaml" \in markers
        THEN Environment("docker-compose")
        ELSE <<>>

\* the arguments of the call: the script and its command line
scriptName == "get-plugins.php"
scriptArgs == <<magentoRootDir, Foo, save>>
phpSourceDir == <<"dist", "..", "php">>

\* how a run of runPhpCommand ends: JSON on stdout, or exec fails, or stdout is
\* not JSON
CommandOutcomes == {"json", "exec failed", "command not found", "not json"}

\* the .env file: absent, holding WARDEN_ENV_TYPE, holding other text, unreadable
EnvFiles == {"absent", "WARDEN_ENV_TYPE", "other", "unreadable"}

Markers == {".ddev", "bin/clinotty", "docker-compose.yml", "compose.yaml"}

\* the script has not been started
ScriptNotRun ==
    /\ pc = "start"
    /\ argv = <<<<"get-plugins.php">>>> \o scriptArgs
    /\ warnings = <<>>
    /\ classReflected = FALSE
    /\ normalizedHierarchy = <<>>
    /\ methodsToScan = <<>>
    /\ diFiles = <<>>
    /\ plugins = <<>>
    /\ curFile = 0
    /\ xmlOk = FALSE
    /\ nDecls = 0
    /\ globalPlugins = <<>>
    /\ areaDiFiles = <<>>
    /\ areaPlugins = <<>>
    /\ scopeIdx = 0
    /\ perScopeMatchedPlugins = <<>>
    /\ methodIdx = 0
    /\ methodResults = <<>>
    /\ totalPluginCount = 0
    /\ stdout = <<>>
    /\ stderr = <<>>
    /\ exitCode = <<>>

InitExecutor ==
    /\ ScriptNotRun
    /\ ProjectAsConfigured
    /\ execState = "start"
    /\ envFile \in EnvFiles
    /\ projectMarkers \in SUBSET Markers
    /\ dockerEnv = <<>>
    /\ commands = <<>>
    /\ cmdIdx = 0
    /\ executed = <<>>
    /\ staged = FALSE
    /\ scriptResult = <<>>
    /\ logged = <<>>
    /\ args = scriptArgs
    /\ removed = <<>>
    /\ MagerunIdle
    /\ OverlapIdle

\* executePhpScript lines 197-205: the environment is detected
DetectEnvironment ==
    /\ execState = "start"
    /\ dockerEnv' = detectDockerEnvironment(envFile, projectMarkers)
    /\ execState' = IF dockerEnv' # <<>> THEN "staging" ELSE "local"
    /\ UNCHANGED <<envFile, projectMarkers, commands, cmdIdx, executed, staged,
                   scriptResult, logged, args, removed>>
    /\ UNCHANGED <<scriptVars, discoveryVars, magerunVars, overlapVars>>

\* a variant of executeViaDocker without the finally block: the directory is
\* left as it is
LeaveStaged(runs) ==
    /\ removed' = removed
    /\ staged' = staged

\* the finally block of executeViaDocker: rmSync is called once, after the runs
\* commands made, and its failure is ignored
RemoveStaged(runs) ==
    \E ok \in BOOLEAN :
        /\ removed' = Append(removed, [after |-> runs, ok |-> ok])
        /\ staged' = IF ok THEN FALSE ELSE staged

\* a variant of lines 128-129 that writes the container root into the caller's
\* array: containerArgs is the array itself
RewriteInPlace(callerArgs) ==
    [containerArgs |-> [callerArgs EXCEPT ![1] = containerRoot],
     args |-> [callerArgs EXCEPT ![1] = containerRoot]]

\* executeViaDocker lines 128-129: containerArgs is a copy of args whose first
\* element is the container root; args is as it was
RewriteRoot(callerArgs) ==
    [containerArgs |-> [callerArgs EXCEPT ![1] = containerRoot],
     args |-> callerArgs]

\* executeViaDocker lines 120-131: the scripts are copied under the project root
\* and the commands are built; when mkdirSync, readdirSync or copyFileSync
\* throws, the finally block runs and the call is rejected
StageScripts ==
    /\ execState = "staging"
    /\ \E copied \in BOOLEAN :
          IF copied
          THEN /\ staged' = TRUE
               /\ commands' =
                     buildCommands(dockerEnv[1].type,
                                   dockerEnv[1].containerRoot
                                       \o <<"var", "tmp", "mcp-php", scriptName>>,
                                   RewriteRoot(args).containerArgs)
               /\ args' = RewriteRoot(args).args
               /\ removed' = removed
               /\ execState' = "docker"
          ELSE /\ RemoveStaged(0)
               /\ commands' = commands
               /\ args' = args
               /\ execState' = "thrown"
    /\ cmdIdx' = 0
    /\ UNCHANGED <<envFile, projectMarkers, dockerEnv, executed, scriptResult, logged>>
    /\ UNCHANGED <<scriptVars, discoveryVars, magerunVars, overlapVars>>

\* the result of a command that wrote JSON
Success(command) == [success |-> TRUE, data |-> [outputOf |-> command]]

\* executeViaDocker lines 133-140: the next command of the list is run; its JSON
\* is returned, its failure moves the loop on
RunDockerCommand ==
    /\ execState = "docker"
    /\ cmdIdx < Len(commands)
    /\ \E outcome \in CommandOutcomes :
          /\ executed' = Append(executed, [via |-> "docker",
                                           command |-> commands[cmdIdx + 1],
                                           outcome |-> outcome])
          /\ IF outcome = "json"
             THEN /\ scriptResult' = <<Success(commands[cmdIdx + 1])>>
                  /\ RemoveStaged(cmdIdx + 1)
                  /\ execState' = "returned"
             ELSE /\ UNCHANGED <<scriptResult, staged, execState, removed>>
    /\ cmdIdx' = cmdIdx + 1
    /\ UNCHANGED <<envFile, projectMarkers, dockerEnv, commands, logged, args>>
    /\ UNCHANGED <<scriptVars, discoveryVars, magerunVars, overlapVars>>

\* a variant of the end of the loop that runs the local PHP although a command
\* of the list is still to be tried
FallBackEarly ==
    /\ execState = "docker"
    /\ cmdIdx >= 1
    /\ logged' = Append(logged, <<"Docker execution failed", dockerEnv[1].type>>)
    /\ RemoveStaged(cmdIdx)
    /\ execState' = "local"
    /\ UNCHANGED <<envFile, projectMarkers, dockerEnv, commands, cmdIdx, executed,
                   scriptResult, args>>
    /\ UNCHANGED <<scriptVars, discoveryVars, magerunVars, overlapVars>>

\* executeViaDocker lines 142-143 and executePhpScript line 204: every command
\* has failed, null is returned and the local PHP is next
FallBackToLocal ==
    /\ execState = "docker"
    /\ cmdIdx = Len(commands)
    /\ logged' = Append(logged, <<"Docker execution failed", dockerEnv[1].type>>)
    /\ RemoveStaged(cmdIdx)
    /\ execState' = "local"
    /\ UNCHANGED <<envFile, projectMarkers, dockerEnv, commands, cmdIdx, executed,
                   scriptResult, args>>
    /\ UNCHANGED <<scriptVars, discoveryVars, magerunVars, overlapVars>>

\* the command of executeViaLocalPhp
LocalCommand == Command(<<>>, FALSE, shellQuote(phpSourceDir \o <<scriptName>>), args)

\* the error result of executeViaLocalPhp
LocalFailure(outcome) ==
    [success |-> FALSE, isError |-> TRUE,
     error |-> IF dockerEnv # <<>>
               THEN <<"Failed via Docker environment and local PHP", dockerEnv[1].type>>
               ELSE IF outcome = "command not found" THEN <<"PHP not found">>
               ELSE <<"Error executing PHP script", outcome>>]

\* executeViaLocalPhp: the script is run with the local PHP and the call returns
RunLocalPhp ==
    /\ execState = "local"
    /\ \E outcome \in CommandOutcomes :
          /\ executed' = Append(executed, [via |-> "local", command |-> LocalCommand,
                                           outcome |-> outcome])
          /\ scriptResult' = IF outcome = "json" THEN <<Success(LocalCommand)>>
                             ELSE <<LocalFailure(outcome)>>
    /\ execState' = "returned"
    /\ UNCHANGED <<envFile, projectMarkers, dockerEnv, commands, cmdIdx, staged, logged,
                   args, removed>>
    /\ UNCHANGED <<scriptVars, discoveryVars, magerunVars, overlapVars>>

NextExecutor ==
    \/ DetectEnvironment
    \/ StageScripts
    \/ RunDockerCommand
    \/ FallBackToLocal
    \/ RunLocalPhp

SpecExecutor == InitExecutor /\ [][NextExecutor]_vars

(***************************************************************************)
(* Two calls of executePhpScript in one project root.  The calls are       *)
(* asynchronous: each runs to its next await (the exec of a command) in    *)
(* one piece, and the other may run while it waits.  Both stage the        *)
(* scripts in the same directory, var/tmp/mcp-php under the project root.  *)
(***************************************************************************)
Callers == {"first", "second"}

\* the files of the php source directory
PhpScripts == {"bootstrap.php", "get-plugins.php"}

\* the project roots of the overlapping calls: DDEV, docker-compose, and
\* docker-magento next to a compose file
OverlapMarkers == {{".ddev"}, {"docker-compose.yml"}, {"bin/clinotty", "compose.yaml"}}

\* the commands each of the calls builds
OverlapCommands ==
    buildCommands(dockerEnv[1].type,
                  dockerEnv[1].containerRoot \o <<"var", "tmp", "mcp-php", scriptName>>,
                  RewriteRoot(args).containerArgs)

InitOverlap ==
    /\ ScriptNotRun
    /\ ProjectAsConfigured
    /\ MagerunIdle
    /\ execState = "idle"
    /\ envFile = "absent"
    /\ projectMarkers \in OverlapMarkers
    /\ dockerEnv = detectDockerEnvironment(envFile, projectMarkers)
    /\ commands = <<>>
    /\ cmdIdx = 0
    /\ executed = <<>>
    /\ staged = FALSE
    /\ scriptResult = <<>>
    /\ logged = <<>>
    /\ args = scriptArgs
    /\ removed = <<>>
    /\ calls = [c \in Callers |->
                  [state |-> "called", tried |-> 0, scriptsAtStart |-> {},
                   result |-> <<>>]]
    /\ tmpDir = {}

\* rmSync(tmpDir, { recursive: true, force: true }) inside try/catch: the
\* directory is removed with all it holds, whoever copied it, or the removal fails
RemoveTmpDir == tmpDir' \in {{}, tmpDir}

\* executeViaDocker up to its first await: the scripts are copied and the first
\* command is started; when the copy throws, the finally block runs and the call
\* is rejected
BeginCall(c) ==
    /\ calls[c].state = "called"
    /\ \E copied \in BOOLEAN :
          IF copied
          THEN /\ tmpDir' = PhpScripts
               /\ calls' = [calls EXCEPT ![c] =
                               [@ EXCEPT !.state = "awaiting", !.tried = 1,
                                         !.scriptsAtStart = PhpScripts]]
          ELSE /\ RemoveTmpDir
               /\ calls' = [calls EXCEPT ![c] = [@ EXCEPT !.state = "thrown"]]
    /\ UNCHANGED <<scriptVars, discoveryVars, executorVars, magerunVars>>

\* the command a call awaits ends.  It can have written JSON only if the script
\* was in the directory when it was started.  On JSON the call returns; on a
\* failure the next command is started, or after the last one the call goes on
\* to the local PHP; the finally block runs when executeViaDocker is left.
EndCommand(c) ==
    /\ calls[c].state = "awaiting"
    /\ \E outcome \in {"json", "failed"} :
          /\ outcome = "json" => scriptName \in calls[c].scriptsAtStart
          /\ IF outcome = "json"
             THEN /\ calls' = [calls EXCEPT ![c] =
                                  [@ EXCEPT !.state = "returned",
                                            !.result = <<Success(OverlapCommands[calls[c].tried])>>]]
                  /\ RemoveTmpDir
             ELSE IF calls[c].tried < Len(OverlapCommands)
             THEN /\ calls' = [calls EXCEPT ![c] =
                                  [@ EXCEPT !.tried = @ + 1, !.scriptsAtStart = tmpDir]]
                  /\ tmpDir' = tmpDir
             ELSE /\ calls' = [calls EXCEPT ![c] = [@ EXCEPT !.state = "local"]]
                  /\ RemoveTmpDir
    /\ UNCHANGED <<scriptVars, discoveryVars, executorVars, magerunVars>>

\* executeViaLocalPhp of a call: the scripts of the php source directory are run
EndLocalPhp(c) ==
    /\ calls[c].state = "local"
    /\ \E outcome \in CommandOutcomes :
          calls' = [calls EXCEPT ![c] =
                       [@ EXCEPT !.state = "returned",
                                 !.result = IF outcome = "json"
                                            THEN <<Success(LocalCommand)>>
                                            ELSE <<LocalFailure(outcome)>>]]
    /\ tmpDir' = tmpDir
    /\ UNCHANGED <<scriptVars, discoveryVars, executorVars, magerunVars>>

NextOverlap ==
    \E c \in Callers :
        \/ BeginCall(c)
        \/ EndCommand(c)
        \/ EndLocalPhp(c)

SpecOverlap == InitOverlap /\ [][NextOverlap]_vars

(***************************************************************************)
(* executeMagerun2Command (index.ts): the command is run with exec; its    *)
(* output, parsed as JSON when asked, or its failure is returned as a      *)
(* value.  Texts are sequences of words; a text includes a phrase when the *)
(* phrase is one of its words.                                             *)
(***************************************************************************)
WhiteSpace == {" ", "\n"}

RECURSIVE TrimStart(_)
TrimStart(text) ==
    IF text # <<>> /\ Head(text) \in WhiteSpace THEN TrimStart(Tail(text)) ELSE text

RECURSIVE TrimEnd(_)
TrimEnd(text) ==
    IF text # <<>> /\ text[Len(text)] \in WhiteSpace
    THEN TrimEnd(SubSeq(text, 1, Len(text) - 1))
    ELSE text

\* String.prototype.trim
Trim(text) == TrimEnd(TrimStart(text))

\* errorMessage.includes(phrase)
Includes(text, phrase) == \E i \in 1..Len(text) : text[i] = phrase

\* the JSON texts among the outputs of the model
JsonTexts == {<<"[", "]">>, <<"{", "}">>}

\* JSON.parse: <<value>>, or <<>> when it throws a SyntaxError; white space
\* around the text is allowed
JsonParse(text) == IF Trim(text) \in JsonTexts THEN <<[json |-> Trim(text)]>> ELSE <<>>

\* what the command may write to stdout: JSON, JSON after a notice, an
\* unfinished text, a table, nothing
Outputs ==
    {<<"[", "]", "\n">>, <<" ", "{", "}">>, <<"Notice:", "[", "]">>, <<"[">>,
     <<"+---+", "\n">>, <<>>}

\* what it may write to stderr
ErrorOutputs == {<<>>, <<" ", "\n">>, <<"Deprecated:", "\n">>}

\* the phrases the message of a failed exec may hold
Phrases ==
    {"command not found", "not recognized", "not a Magento installation",
     "app/etc/env.php", "ETIMEDOUT"}

\* the messages of a failed exec: "Command failed:" and one of the phrases, or
\* a not-found phrase together with a phrase of the other kind or with the other
\* not-found phrase
ErrorMessages ==
    {<<"Command failed:">>}
    \cup {<<"Command failed:", a>> : a \in Phrases}
    \cup {<<"Command failed:", a, b>> :
            a \in Phrases, b \in {"command not found", "not recognized"}}

MagerunNotFound ==
    <<"Error: magerun2 command not found.", "Installation instructions">>

NotMagento ==
    <<"Error: Current directory does not appear to be a Magento 2 installation.">>

Failure(text) == [success |-> FALSE, error |-> text, isError |-> TRUE]

\* a variant of the catch block that tests for a Magento directory first
ClassifyMagentoFirst(errorMessage) ==
    IF Includes(errorMessage, "not a Magento installation")
       \/ Includes(errorMessage, "app/etc/env.php")
    THEN Failure(NotMagento)
    ELSE IF Includes(errorMessage, "command not found")
            \/ Includes(errorMessage, "not recognized")
    THEN Failure(MagerunNotFound)
    ELSE Failure(<<"Error executing magerun2 command:">> \o errorMessage)

\* the catch block, lines 61-87
ClassifyError(errorMessage) ==
    IF Includes(errorMessage, "command not found")
       \/ Includes(errorMessage, "not recognized")
    THEN Failure(MagerunNotFound)
    ELSE IF Includes(errorMessage, "not a Magento installation")
            \/ Includes(errorMessage, "app/etc/env.php")
    THEN Failure(NotMagento)
    ELSE Failure(<<"Error executing magerun2 command:">> \o errorMessage)

\* lines 47-59: the result for the output of a command that ran
OutputResult(asJson, out) ==
    IF asJson
    THEN IF JsonParse(out) # <<>>
         THEN [success |-> TRUE, data |-> JsonParse(out)[1], rawOutput |-> out]
         ELSE Failure(<<"Error parsing magerun2 JSON output:", "SyntaxError",
                        "Raw output:">> \o out)
    ELSE [success |-> TRUE, data |-> [text |-> Trim(out)], rawOutput |-> out]

InitMagerun ==
    /\ ScriptNotRun
    /\ ProjectAsConfigured
    /\ ExecutorIdle
    /\ OverlapIdle
    /\ magerunState = "start"
    /\ parseJson \in BOOLEAN
    /\ execResult = <<>>
    /\ magerunResult = <<>>

\* line 38: execAsync resolves with what the command wrote, or rejects
ExecCommand ==
    /\ magerunState = "start"
    /\ \/ \E out \in Outputs, err \in ErrorOutputs :
             /\ execResult' = <<[stdout |-> out, stderr |-> err]>>
             /\ magerunState' = "resolved"
       \/ \E message \in ErrorMessages :
             /\ execResult' = <<[message |-> message]>>
             /\ magerunState' = "rejected"
    /\ UNCHANGED <<parseJson, magerunResult>>
    /\ UNCHANGED <<scriptVars, discoveryVars, executorVars, overlapVars>>

\* lines 43-59: stderr is logged when it is not blank and the result is returned
ReturnOutput ==
    /\ magerunState = "resolved"
    /\ logged' = IF Trim(execResult[1].stderr) # <<>>
                 THEN Append(logged, <<"magerun2 stderr:">> \o execResult[1].stderr)
                 ELSE logged
    /\ magerunResult' = <<OutputResult(parseJson, execResult[1].stdout)>>
    /\ magerunState' = "returned"
    /\ UNCHANGED <<parseJson, execResult>>
    /\ UNCHANGED <<execState, envFile, projectMarkers, dockerEnv, commands, cmdIdx,
                   executed, staged, scriptResult, args, removed>>
    /\ UNCHANGED <<scriptVars, discoveryVars, overlapVars>>

\* lines 61-87: the failure of exec is returned as an error result
ReturnError ==
    /\ magerunState = "rejected"
    /\ magerunResult' = <<ClassifyError(execResult[1].message)>>
    /\ magerunState' = "returned"
    /\ UNCHANGED <<parseJson, execResult>>
    /\ UNCHANGED <<scriptVars, discoveryVars, executorVars, overlapVars>>

NextMagerun ==
    \/ ExecCommand
    \/ ReturnOutput
    \/ ReturnError

SpecMagerun == InitMagerun /\ [][NextMagerun]_vars

(***************************************************************************)
(* Reading the results                                                     *)
(***************************************************************************)
\* the scope results recorded for one method, as records [method, scope, result]
ScopeResultsOf(method, scopeResults) ==
    {[method |-> method, scope |-> scopeResults[i].key, result |-> scopeResults[i].val] :
        i \in 1..Len(scopeResults)}

\* $methodResults as written to the document, or as built so far
MethodResultsSoFar == IF stdout # <<>> THEN stdout[1].methodResults ELSE methodResults

\* every scope result analyzeMethod has produced so far, in either mode
AnalysedResults ==
    IF MethodGiven
    THEN IF stdout = <<>> THEN {}
         ELSE ScopeResultsOf(MethodNameArg, stdout[1].scopeResults)
    ELSE UNION {ScopeResultsOf(MethodResultsSoFar[i].key,
                               MethodResultsSoFar[i].val.scopeResults) :
                    i \in 1..Len(MethodResultsSoFar)}

\* the methods analyzeMethod has been called for so far
AnalysedMethods ==
    IF MethodGiven
    THEN IF stdout = <<>> THEN {} ELSE {MethodNameArg}
    ELSE {methodsToScan[i] : i \in 1..methodIdx}

\* the steps of an execution order that carry the label step
StepsOf(order, step) ==
    LET Labelled(s) == s.step = step
    IN SelectSeq(order, Labelled)

\* the plugins of a list whose methods mapping has the hook kind
PluginsWith(pluginList, kind) ==
    LET Has(p) == kind \in DOMAIN p.methods
    IN SelectSeq(pluginList, Has)

NamesOf(s) == [i \in 1..Len(s) |-> s[i].pluginName]

PhaseRank(step) ==
    CASE step = "before" -> 1
      [] step = "around (entering)" -> 2
      [] step = "original" -> 3
      [] step = "around (exiting)" -> 4
      [] step = "after" -> 5
      [] OTHER -> 0

(***************************************************************************)
(* The execution order                                                     *)
(***************************************************************************)
\* C1: in every scope result of analyzeMethod the steps of executionOrder are
\* labelled with the five phases and never go back to an earlier phase (before,
\* around (entering), original, around (exiting), after); there is exactly one
\* original step, whose pluginName and sortOrder are null and whose class and
\* method are the requested ones; the before steps and the after steps are one
\* per plugin having that hook, in the order of the sorted plugin list.
PhaseStructure ==
    \A r \in AnalysedResults :
        LET order == r.result.executionOrder
            sorted == r.result.plugins
        IN  /\ \A i \in 1..Len(order) : PhaseRank(order[i].step) # 0
            /\ \A i, j \in 1..Len(order) :
                    i < j => PhaseRank(order[i].step) <= PhaseRank(order[j].step)
            /\ StepsOf(order, "original") =
                    <<[step |-> "original", pluginName |-> "<null>",
                       class |-> ClassNameArg, method |-> r.method, sortOrder |-> <<>>]>>
            /\ NamesOf(StepsOf(order, "before")) = NamesOf(PluginsWith(sorted, "before"))
            /\ NamesOf(StepsOf(order, "after")) = NamesOf(PluginsWith(sorted, "after"))

\* a result whose order has steps of all five phases, two before steps, and a
\* plugin without an around hook
PhaseStructureSeen ==
    \E r \in AnalysedResults :
        LET order == r.result.executionOrder
        IN  /\ Len(StepsOf(order, "before")) >= 2
            /\ Len(StepsOf(order, "around (entering)")) >= 1
            /\ Len(StepsOf(order, "around (exiting)")) >= 1
            /\ Len(StepsOf(order, "after")) >= 2
            /\ Len(PluginsWith(r.result.plugins, "around")) < Len(r.result.plugins)

\* C2: in every scope result the around (entering) steps are one per plugin
\* having an around hook, in the order of the sorted plugin list, and the
\* around (exiting) steps are the same steps in exactly the reverse order: of two
\* around plugins the one sorted first enters first and exits last.
AroundNesting ==
    \A r \in AnalysedResults :
        LET order == r.result.executionOrder
            entering == StepsOf(order, "around (entering)")
            exiting == StepsOf(order, "around (exiting)")
            around == PluginsWith(r.result.plugins, "around")
            n == Len(around)
            first == Len(StepsOf(order, "before"))
        IN  /\ Len(entering) = n
            /\ Len(exiting) = n
            /\ \A i \in 1..n :
                    \* the i-th around plugin enters at position first + i and
                    \* exits at position first + n + 1 + (n + 1 - i)
                    /\ order[first + i].step = "around (entering)"
                    /\ order[first + i].pluginName = around[i].pluginName
                    /\ order[first + i].class = around[i].pluginType
                    /\ order[first + i].method = around[i].methods["around"]
                    /\ order[first + i].sortOrder = <<around[i].sortOrder>>
                    /\ order[first + n + 1 + (n + 1 - i)] =
                            [order[first + i] EXCEPT !.step = "around (exiting)"]
            /\ \A i, j \in 1..n : i < j => around[i].sortOrder <= around[j].sortOrder

\* a result with an around plugin of sortOrder 10 sorted before one of sortOrder 20
\* that was declared first
AroundNestingSeen ==
    \E r \in AnalysedResults :
        LET around == PluginsWith(r.result.plugins, "around")
        IN  /\ Len(around) >= 2
            /\ around[1].sortOrder = 10
            /\ around[2].sortOrder = 20
            /\ around[1].pluginName = "q"
            /\ around[2].pluginName = "p"

(***************************************************************************)
(* The method filter                                                       *)
(***************************************************************************)
\* the plugin's type is empty or names no class that can be reflected
TypeUnknown(plugin) == PhpEmpty(plugin.pluginType) \/ ~Reflectable(plugin.pluginType)

\* the hook method names of a method: kind followed by the capitalised name
HookNames(method) ==
    [k \in {"before", "around", "after"} |-> <<k>> \o Ucfirst(method)]

\* the hook kinds whose method exists on the plugin's type
ExistingKinds(plugin, method) ==
    {k \in DOMAIN HookNames(method) : HasMethod(plugin.pluginType, HookNames(method)[k])}

\* the plugins of the result recorded for a method and a scope
ReportedPlugins(method, scope) ==
    UNION {Range(r.result.plugins) : r \in {x \in AnalysedResults :
                                              x.method = method /\ x.scope = scope}}

\* C9: a matched plugin whose pluginType is empty or cannot be reflected is in the
\* result of every method analysed for its scope, with a reflectionError and with
\* all three hooks (before, around, after) in its methods mapping; an entry
\* carries a reflectionError in these two cases only; and the request is not
\* aborted: it ends with status 0 and one document.
ReflectionFallback ==
    /\ \A r \in AnalysedResults : \A pl \in Range(r.result.plugins) :
            /\ ("reflectionError" \in DOMAIN pl) <=> TypeUnknown(pl)
            /\ TypeUnknown(pl) => /\ pl.methods = HookNames(r.method)
                                  /\ pl.reflectionError # <<>>
    /\ \A m \in AnalysedMethods : \A s \in 1..Len(perScopeMatchedPlugins) :
            \A matched \in Range(perScopeMatchedPlugins[s].val) :
                TypeUnknown(matched) =>
                    \E pl \in ReportedPlugins(m, perScopeMatchedPlugins[s].key) :
                        /\ pl.pluginName = matched.pluginName
                        /\ pl.pluginType = matched.pluginType
                        /\ "reflectionError" \in DOMAIN pl
    /\ Ended => exitCode = <<0>> /\ Len(stdout) = 1 /\ stderr = <<>>

\* a document reporting a plugin without a type, a plugin of a missing class and a
\* plugin of a reflectable class
ReflectionFallbackSeen ==
    /\ Ended
    /\ \E r \in AnalysedResults :
          /\ \E pl \in Range(r.result.plugins) : pl.pluginType = <<>>
          /\ \E pl \in Range(r.result.plugins) : pl.pluginType = Missing
          /\ \E pl \in Range(r.result.plugins) : ~TypeUnknown(pl)

\* C10: a reported plugin whose type is reflectable has in its methods mapping
\* exactly the hook kinds whose method (kind + capitalised method name) exists on
\* its type, each mapped to that name; a matched plugin of reflectable type is
\* reported for a method exactly if at least one of the three exists; and a
\* plugin without an around hook has no around step in executionOrder.
ReflectedHooks ==
    /\ \A r \in AnalysedResults : \A pl \in Range(r.result.plugins) :
            /\ ~TypeUnknown(pl) =>
                  /\ DOMAIN pl.methods = ExistingKinds(pl, r.method)
                  /\ \A k \in DOMAIN pl.methods : pl.methods[k] = HookNames(r.method)[k]
            /\ "around" \notin DOMAIN pl.methods =>
                  \A i \in 1..Len(r.result.executionOrder) :
                      LET step == r.result.executionOrder[i]
                      IN  step.pluginName = pl.pluginName =>
                              step.step \in {"before", "after"}
    /\ \A m \in AnalysedMethods : \A s \in 1..Len(perScopeMatchedPlugins) :
            \A matched \in Range(perScopeMatchedPlugins[s].val) :
                ~TypeUnknown(matched) =>
                    ((ExistingKinds(matched, m) # {}) <=>
                        \E pl \in ReportedPlugins(m, perScopeMatchedPlugins[s].key) :
                            pl.pluginName = matched.pluginName)

\* all methods analysed: a result of save whose only plugin has the before and the
\* after hook, its order being before, original, after; and a plugin with no hook
\* for load that is left out of the results of load
ReflectedHooksSeen ==
    /\ Ended
    /\ \E r \in AnalysedResults :
          /\ r.method = save
          /\ Len(r.result.plugins) = 1
          /\ DOMAIN r.result.plugins[1].methods = {"before", "after"}
          /\ Len(r.result.executionOrder) = 3
    /\ \E s \in 1..Len(perScopeMatchedPlugins) :
          \E matched \in Range(perScopeMatchedPlugins[s].val) :
              /\ ~TypeUnknown(matched)
              /\ ExistingKinds(matched, load) = {}
              /\ load \in AnalysedMethods
              /\ \A pl \in ReportedPlugins(load, perScopeMatchedPlugins[s].key) :
                    pl.pluginName # matched.pluginName

(***************************************************************************)
(* The scopes                                                              *)
(***************************************************************************)
\* the mapping parsed from the scope's own files: empty for global and for a
\* scope without area files
AreaOf(scope) == IF Isset(areaPlugins, scope) THEN Get(areaPlugins, scope) ELSE <<>>

\* the keys of the scope's effective plugin list before disabled entries go
EffectiveKeys(scope) == Keys(globalPlugins) \cup Keys(AreaOf(scope))

\* the entry of a key in the scope's effective plugin list
EffectiveEntry(scope, key) ==
    IF Isset(AreaOf(scope), key) THEN Get(AreaOf(scope), key)
    ELSE Get(globalPlugins, key)

\* the declaration fields of a reported plugin
Declared(pl) ==
    [pluginName |-> pl.pluginName, pluginType |-> pl.pluginType,
     targetType |-> pl.targetType, sortOrder |-> pl.sortOrder,
     disabled |-> pl.disabled, sourceFile |-> pl.sourceFile]

\* the entry with its targetType stripped of leading separators
Normalised(entry) == [entry EXCEPT !.targetType = Ltrim(@)]

\* every scope has been through Step 5
ScopesDone == pc \in {"step6", "done"} /\ scopeIdx > Len(allScopes)

\* the names the requested class is matched under: the class as requested, its
\* ancestor classes and its interfaces, or the requested name alone
HierarchyNames ==
    IF Reflectable(ClassNameArg)
    THEN {Ltrim(ClassNameArg)}
         \cup Range(ParentChain(LookupName(ClassNameArg)))
         \cup Range(ClassTable[LookupName(ClassNameArg)].interfaces)
    ELSE {Ltrim(ClassNameArg)}

\* the entry is enabled and declared on a member of the hierarchy
Matching(entry) ==
    /\ entry.disabled \notin {"true", "1"}
    /\ Ltrim(entry.targetType) \in HierarchyNames

\* the keys of the scope whose effective entry is enabled and declared on a
\* member of the hierarchy
MatchingKeys(scope) ==
    {key \in EffectiveKeys(scope) : Matching(EffectiveEntry(scope, key))}

\* the plugin has a hook for the method, found by reflection or assumed
Hooks(plugin, method) == TypeUnknown(plugin) \/ ExistingKinds(plugin, method) # {}

\* C3: in every scope, an entry of the effective plugin list whose disabled value
\* is "true" or "1" contributes nothing to the scope's result, whatever its
\* sortOrder and its hooks: every reported plugin is the normalised form of an
\* effective entry of that scope that is not disabled, and every step of
\* executionOrder other than the original one is the step of a reported plugin.
DisabledNeverReported ==
    \A r \in AnalysedResults :
        /\ \A pl \in Range(r.result.plugins) :
              /\ pl.disabled \notin {"true", "1"}
              /\ pl.scope = r.scope
              /\ \E key \in EffectiveKeys(r.scope) :
                    Declared(pl) = Normalised(EffectiveEntry(r.scope, key))
        /\ \A key \in EffectiveKeys(r.scope) :
              EffectiveEntry(r.scope, key).disabled \in {"true", "1"} =>
                  \A pl \in Range(r.result.plugins) :
                      Declared(pl) # Normalised(EffectiveEntry(r.scope, key))
        /\ \A i \in 1..Len(r.result.executionOrder) :
              LET step == r.result.executionOrder[i]
              IN  step.step # "original" =>
                      \E pl \in Range(r.result.plugins) :
                          /\ step.pluginName = pl.pluginName
                          /\ step.class = pl.pluginType
                          /\ step.sortOrder = <<pl.sortOrder>>

\* a document with results for a scope in which an entry declared on the class
\* with disabled="true", hooking the method, is left out
DisabledNeverReportedSeen ==
    /\ stdout # <<>>
    /\ \E r \in AnalysedResults : \E key \in EffectiveKeys(r.scope) :
          LET entry == EffectiveEntry(r.scope, key)
          IN  /\ entry.disabled = "true"
              /\ Ltrim(entry.targetType) \in HierarchyNames
              /\ Hooks(entry, r.method)

\* the plugin of a key is declared under no other key of the run: no entry of
\* another key has its pluginName and, separators stripped, its targetType
SingleKey(key) ==
    \A scope \in Range(allScopes) : \A other \in EffectiveKeys(scope) :
        other # key =>
            LET entry == EffectiveEntry(scope, other)
                mine == Get(globalPlugins, key)
            IN  ~(/\ entry.pluginName = mine.pluginName
                  /\ Ltrim(entry.targetType) = Ltrim(mine.targetType))

\* the global entry of the key matches, and the key is declared in the frontend
\* files alone, with disabled="1"
DisabledInFrontendOnly(key) ==
    /\ Isset(globalPlugins, key)
    /\ Get(globalPlugins, key).disabled \notin {"true", "1"}
    /\ Ltrim(Get(globalPlugins, key).targetType) \in HierarchyNames
    /\ Isset(AreaOf("frontend"), key)
    /\ Get(AreaOf("frontend"), key).disabled = "1"
    /\ \A scope \in Range(allScopes) : scope # "frontend" => ~Isset(AreaOf(scope), key)
    /\ SingleKey(key)

\* C5: a plugin that matches in the global declarations and is declared again,
\* with disabled="1", in the frontend files only is reported, for every method it
\* hooks, in the result of global and of every scope other than frontend, and
\* in no result of frontend.
FrontendOnlyDisabled ==
    stdout # <<>> =>
        \A key \in Keys(globalPlugins) :
            DisabledInFrontendOnly(key) =>
                LET entry == Get(globalPlugins, key)
                IN  /\ \A m \in AnalysedMethods : \A scope \in Range(allScopes) :
                          (Hooks(entry, m) /\ scope # "frontend") =>
                              \E pl \in ReportedPlugins(m, scope) :
                                  Declared(pl) = Normalised(entry)
                    /\ \A m \in AnalysedMethods :
                          \A pl \in ReportedPlugins(m, "frontend") :
                              ~(/\ pl.pluginName = entry.pluginName
                                /\ pl.targetType = Ltrim(entry.targetType))

\* a document for a method hooked by a plugin that is disabled in frontend only,
\* while another plugin is still reported for frontend
FrontendOnlyDisabledSeen ==
    /\ stdout # <<>>
    /\ \E key \in Keys(globalPlugins) :
          /\ DisabledInFrontendOnly(key)
          /\ \E m \in AnalysedMethods : Hooks(Get(globalPlugins, key), m)

\* the matched plugins recorded for the scope, none if the scope is not recorded
MatchedOf(scope) ==
    IF Isset(perScopeMatchedPlugins, scope) THEN Get(perScopeMatchedPlugins, scope)
    ELSE <<>>

\* the list matched holds the normalised entries of the keys, one for each, and
\* the scope is recorded exactly if there is one
MatchedAre(scope, matched, keys) ==
    /\ Range(matched) = {Normalised(EffectiveEntry(scope, key)) : key \in keys}
    /\ Len(matched) = Cardinality(keys)
    /\ Isset(perScopeMatchedPlugins, scope) <=> keys # {}

\* C6: once every scope has been through Step 5, the matched plugins of a scope
\* are exactly the effective entries that are not disabled and whose targetType,
\* leading separators stripped, equals (case-sensitively) a name of the class
\* hierarchy: the requested class, an ancestor class or an interface; they are
\* recorded with the stripped targetType, and a scope without any is not recorded.
MatchedIffInHierarchy ==
    ScopesDone =>
        \A scope \in Range(allScopes) :
            MatchedAre(scope, MatchedOf(scope), MatchingKeys(scope))

\* a run for the reflected class in which a plugin declared on its interface is
\* matched and an enabled plugin declared on an unrelated type is not
MatchedIffInHierarchySeen ==
    /\ ScopesDone
    /\ Reflectable(ClassNameArg)
    /\ \E key \in MatchingKeys("global") :
          EffectiveEntry("global", key).targetType = Iface
    /\ \E key \in EffectiveKeys("global") \ MatchingKeys("global") :
          /\ EffectiveEntry("global", key).targetType = Other
          /\ EffectiveEntry("global", key).disabled = ""

(***************************************************************************)
(* A class that cannot be reflected                                        *)
(***************************************************************************)
\* the steps the script is in before Step 3
BeforeParsing == pc \in {"start", "bootstrap", "step1", "step2"}

\* C7: when the class cannot be reflected and no methodName was given, the run
\* never gets past Step 2, whatever the di.xml files hold: it writes no document
\* (no result, no warnings list) and, once ended, has a non-zero exit status.
UnreflectableWithoutMethod ==
    (Len(argv) = 3 /\ ~Reflectable(ClassNameArg)) =>
        /\ stdout = <<>>
        /\ BeforeParsing \/ pc = "done"
        /\ globalPlugins = <<>> /\ perScopeMatchedPlugins = <<>> /\ methodResults = <<>>
        /\ Ended => exitCode # <<0>>

\* the run for an unreflectable class without a method, given up in Step 2
UnreflectableWithoutMethodSeen ==
    /\ Len(argv) = 3
    /\ ~Reflectable(ClassNameArg)
    /\ pc = "done"
    /\ exitCode = <<1>>
    /\ stderr = <<"Cannot determine methods">>
    /\ warnings # <<>>

\* C8: when the class cannot be reflected and a methodName was given, the run
\* fails in the bootstrap or not at all; from Step 2 on the hierarchy is the
\* requested name alone, leading separators stripped, and the warnings are the
\* one warning of the failed reflection; the matched plugins are those declared on
\* that literal name; the document reports this hierarchy, this warning and
\* only plugins of that targetType, with exit status 0.
UnreflectableWithMethod ==
    (Len(argv) >= 4 /\ ~Reflectable(ClassNameArg)) =>
        LET literal == Ltrim(ClassNameArg)
            warning == <<"Could not reflect class">> \o ClassNameArg
        IN  /\ (Ended /\ exitCode # <<0>>) =>
                    stderr \in {<<"no root">>, <<"no autoload">>, <<"no config">>}
            /\ pc \notin {"start", "bootstrap", "step1"} /\ exitCode \in {<<>>, <<0>>} =>
                    /\ normalizedHierarchy = <<literal>>
                    /\ warnings = <<warning>>
            /\ \A s \in 1..Len(perScopeMatchedPlugins) :
                    \A matched \in Range(perScopeMatchedPlugins[s].val) :
                        matched.targetType = literal
            /\ ScopesDone =>
                    \A scope \in Range(allScopes) :
                        Isset(perScopeMatchedPlugins, scope) <=>
                            \E key \in EffectiveKeys(scope) :
                                /\ EffectiveEntry(scope, key).disabled \notin {"true", "1"}
                                /\ Ltrim(EffectiveEntry(scope, key).targetType) = literal
            /\ stdout # <<>> =>
                    /\ exitCode = <<0>>
                    /\ Len(stdout) = 1
                    /\ stdout[1].targetClass = literal
                    /\ stdout[1].classHierarchy = <<literal>>
                    /\ stdout[1].warnings = <<warning>>
                    /\ \A r \in AnalysedResults : \A pl \in Range(r.result.plugins) :
                            pl.targetType = literal

\* the document of a run for an unreflectable class, reporting a plugin declared
\* on its name while a plugin declared on another type is not reported
UnreflectableWithMethodSeen ==
    /\ Len(argv) >= 4
    /\ ~Reflectable(ClassNameArg)
    /\ stdout # <<>>
    /\ AnalysedResults # {}
    /\ \E key \in Keys(globalPlugins) :
          /\ Get(globalPlugins, key).disabled = ""
          /\ Ltrim(Get(globalPlugins, key).targetType) # Ltrim(ClassNameArg)

(***************************************************************************)
(* Redeclaring a plugin without a type                                     *)
(***************************************************************************)
\* the later element el redeclares, without a type, a key of the mapping ps
Redeclares(el, ps) ==
    /\ ~PhpEmpty(el.targetType)
    /\ ~PhpEmptyStr(el.name)
    /\ PhpEmpty(el.type)
    /\ Isset(ps, CompositeKey(el.targetType, el.name))

\* what the redeclaration el is said to do to the entry old
Refined(el, old, new) ==
    /\ new.pluginType = old.pluginType
    /\ new.pluginName = old.pluginName
    /\ new.targetType = old.targetType
    /\ new.sortOrder = IF el.hasSortOrder THEN IntCast(el.sortOrder) ELSE old.sortOrder
    /\ new.disabled = IF el.disabled # "" THEN el.disabled ELSE old.disabled

\* a step of one parse pass that reads the element el
ParsesElement(el) ==
    /\ Parsing
    /\ pc' = pc
    /\ nDecls' = nDecls + 1
    /\ plugins' = ParsePluginNode(plugins, diFiles[curFile], el)

\* C4, within one parse pass: when parsePluginsFromFiles reads an element with an
\* empty type whose key targetType::pluginName is already in the mapping it is
\* building, the entry keeps its pluginType, takes the element's sortOrder if
\* the element has that attribute and its disabled value if that is not empty,
\* and no other entry changes.
RefinementKeepsType ==
    [][\A el \in PluginElements :
          (ParsesElement(el) /\ Redeclares(el, plugins)) =>
              LET key == CompositeKey(el.targetType, el.name)
              IN  /\ Keys(plugins') = Keys(plugins)
                  /\ Refined(el, Get(plugins, key), Get(plugins', key))
                  /\ \A other \in Keys(plugins) \ {key} :
                        Get(plugins', other) = Get(plugins, other)]_vars

\* a pass in which a full declaration of a plugin was followed by a declaration
\* with a sortOrder only: the entry has the type of the first and the sortOrder
\* of the second
RefinementKeepsTypeSeen ==
    /\ Parsing
    /\ \E key \in Keys(plugins) :
          /\ Get(plugins, key).pluginType = PlugAll
          /\ Get(plugins, key).sortOrder = 20

\* C4 as stated, for every merged entry, those of a scope's effective plugin list
\* included: a key whose global entry has a pluginType and which the scope's own
\* files declare again, enabled, still has a pluginType in the scope's effective
\* entry.
TypeNeverErased ==
    \A scope \in Keys(areaPlugins) : \A key \in Keys(globalPlugins) :
        (/\ ~PhpEmpty(Get(globalPlugins, key).pluginType)
         /\ Isset(AreaOf(scope), key)
         /\ EffectiveEntry(scope, key).disabled \notin {"true", "1"})
            => ~PhpEmpty(EffectiveEntry(scope, key).pluginType)

(***************************************************************************)
(* The sort                                                                *)
(***************************************************************************)
\* the keys of the scope's effective plugin list in the order they were first
\* parsed: the global keys, then the keys only the scope's own files declare
FirstParsed(scope) ==
    LET NewKey(e) == ~Isset(globalPlugins, e.key)
        added == SelectSeq(AreaOf(scope), NewKey)
    IN  [i \in 1..Len(globalPlugins) |-> globalPlugins[i].key]
        \o [i \in 1..Len(added) |-> added[i].key]

\* the first position in the key order at which the reported plugin is declared
ParseRank(scope, order, pl) ==
    LET at == {i \in 1..Len(order) :
                  Normalised(EffectiveEntry(scope, order[i])) = Declared(pl)}
    IN  IF at = {} THEN 0 ELSE CHOOSE i \in at : \A j \in at : i <= j

\* the list is ascending by sortOrder and plugins of equal sortOrder are in the
\* order of their keys
SortedStably(scope, order, list) ==
    \A i, j \in 1..Len(list) :
        i < j =>
            /\ list[i].sortOrder <= list[j].sortOrder
            /\ ParseRank(scope, order, list[i]) # 0
            /\ list[i].sortOrder = list[j].sortOrder =>
                  ParseRank(scope, order, list[i]) <= ParseRank(scope, order, list[j])

\* C11: in every scope result the plugins list is ascending by sortOrder, and
\* plugins of equal sortOrder are in the order in which their keys were first
\* parsed (the global keys in the order of the global pass, then the keys that
\* only the scope's own files declare).
SortedBySortOrder ==
    \A r \in AnalysedResults :
        SortedStably(r.scope, FirstParsed(r.scope), r.result.plugins)

\* a result with three plugins: two of sortOrder 20, in declaration order, after
\* one of sortOrder 10 that was declared last
SortedBySortOrderSeen ==
    \E r \in AnalysedResults :
        /\ NamesOf(r.result.plugins) = <<"r", "p", "q">>
        /\ r.result.plugins[1].sortOrder = 10
        /\ r.result.plugins[2].sortOrder = 20
        /\ r.result.plugins[3].sortOrder = 20

(***************************************************************************)
(* A class without plugins                                                 *)
(***************************************************************************)
\* the entries parsed in the run: those of the global pass and of every scope
ParsedEntries ==
    {globalPlugins[i].val : i \in 1..Len(globalPlugins)}
    \cup UNION {{areaPlugins[s].val[i].val : i \in 1..Len(areaPlugins[s].val)} :
                    s \in 1..Len(areaPlugins)}

\* no file declares a plugin on the requested class or on a member of its hierarchy
NoneDeclared ==
    \A entry \in ParsedEntries : Ltrim(entry.targetType) \notin HierarchyNames

\* C12: when no file declares a plugin on the requested class or on any member
\* of its hierarchy, no scope is recorded in Step 5 and the document has
\* totalPluginCount 0 and an empty scopeResults (single-method mode) or an empty
\* methodResults (all-methods mode).
NoPluginsNoResults ==
    (ScopesDone /\ NoneDeclared) =>
        /\ perScopeMatchedPlugins = <<>>
        /\ methodResults = <<>>
        /\ stdout # <<>> =>
              /\ stdout[1].totalPluginCount = 0
              /\ MethodGiven => stdout[1].scopeResults = <<>>
              /\ ~MethodGiven => stdout[1].methodResults = <<>>

\* the document of an all-methods run for a reflected class, empty although the
\* files declare an enabled plugin (on an unrelated type) in global and in a scope
NoPluginsNoResultsSeen ==
    /\ stdout # <<>>
    /\ ~MethodGiven
    /\ methodsToScan # <<>>
    /\ NoneDeclared
    /\ \E key \in Keys(globalPlugins) : Get(globalPlugins, key).disabled = ""
    /\ \E s \in 1..Len(areaPlugins) : areaPlugins[s].val # <<>>

(***************************************************************************)
(* The counts                                                              *)
(***************************************************************************)
RECURSIVE PluginsListed(_)
\* the number of plugins listed in the plugins lists of a scopeResults mapping
PluginsListed(scopeResults) ==
    IF scopeResults = <<>> THEN 0
    ELSE Len(Head(scopeResults).val.plugins) + PluginsListed(Tail(scopeResults))

RECURSIVE MethodTotals(_)
\* the sum of the totalPluginCount fields of a methodResults mapping
MethodTotals(results) ==
    IF results = <<>> THEN 0
    ELSE Head(results).val.totalPluginCount + MethodTotals(Tail(results))

\* the keys of a mapping are distinct: its length is the number of its keys
CountOfKeys(m) == Cardinality(Keys(m))

\* C13: each scope's pluginCount is the length of its plugins list; in
\* single-method mode totalPluginCount is the sum of pluginCount over
\* scopeResults; in all-methods mode each method's totalPluginCount is the sum
\* over its scopes, the top-level totalPluginCount is the sum over methodResults
\* (also while the loop over the methods runs), methodsWithPlugins is the number
\* of keys of methodResults and is at most methodsChecked.
CountsConsistent ==
    /\ \A r \in AnalysedResults : r.result.pluginCount = Len(r.result.plugins)
    /\ \A i \in 1..Len(methodResults) :
          methodResults[i].val.totalPluginCount =
              PluginsListed(methodResults[i].val.scopeResults)
    /\ totalPluginCount = MethodTotals(methodResults)
    /\ stdout # <<>> =>
          IF MethodGiven
          THEN stdout[1].totalPluginCount = PluginsListed(stdout[1].scopeResults)
          ELSE /\ stdout[1].totalPluginCount = MethodTotals(stdout[1].methodResults)
               /\ \A i \in 1..Len(stdout[1].methodResults) :
                     stdout[1].methodResults[i].val.totalPluginCount =
                         PluginsListed(stdout[1].methodResults[i].val.scopeResults)
               /\ stdout[1].methodsWithPlugins = CountOfKeys(stdout[1].methodResults)
               /\ stdout[1].methodsWithPlugins <= stdout[1].methodsChecked
               /\ stdout[1].methodsChecked = Len(methodsToScan)

\* an all-methods document with two methods, one of them with fewer plugins than
\* the other, and a scope with more than one plugin
CountsConsistentSeen ==
    /\ stdout # <<>>
    /\ ~MethodGiven
    /\ stdout[1].methodsWithPlugins = 2
    /\ stdout[1].methodResults[1].val.totalPluginCount
          > stdout[1].methodResults[2].val.totalPluginCount
    /\ \E r \in AnalysedResults : r.result.pluginCount >= 2

(***************************************************************************)
(* The scope merge                                                         *)
(***************************************************************************)
\* the matched plugins of the scope that carry the name and, separators
\* stripped, the targetType of the entry
MatchedAs(scope, entry) ==
    {pl \in Range(MatchedOf(scope)) :
        /\ pl.pluginName = entry.pluginName
        /\ pl.targetType = Ltrim(entry.targetType)}

\* the key is declared in the global files and in the scope's own files
DeclaredTwice(scope, key) == Isset(globalPlugins, key) /\ Isset(AreaOf(scope), key)

\* C14: for a key declared both in the global files and in a scope's own files
\* (and under no other spelling), the scope's matched plugins hold the entry
\* parsed from the scope's files and nothing of the global entry: pluginType,
\* sortOrder, disabled and sourceFile are those of the scope-specific parse, even
\* where the scope-specific declaration left the type empty or gave no disabled
\* value; the entry is matched exactly if the scope-specific entry is enabled and
\* in the hierarchy.
ScopeEntryReplacesGlobal ==
    ScopesDone =>
        \A s \in 2..Len(allScopes) : \A key \in Keys(AreaOf(allScopes[s])) :
            (DeclaredTwice(allScopes[s], key) /\ SingleKey(key)) =>
                LET own == Get(AreaOf(allScopes[s]), key)
                IN  MatchedAs(allScopes[s], own) =
                        IF Matching(own) THEN {Normalised(own)} ELSE {}

\* a scope whose own files redeclare a global plugin with a sortOrder alone: the
\* matched entry has no pluginType, the sortOrder and the sourceFile of the scope
ScopeEntryReplacesGlobalSeen ==
    /\ ScopesDone
    /\ \E key \in Keys(globalPlugins) :
          /\ DeclaredTwice("adminhtml", key)
          /\ SingleKey(key)
          /\ Get(globalPlugins, key).pluginType = PlugAll
          /\ \E pl \in MatchedAs("adminhtml", Get(globalPlugins, key)) :
                /\ pl.pluginType = <<>>
                /\ pl.sortOrder = 20
                /\ pl.sourceFile = AreaDi(allModulePaths[1], "adminhtml")

(***************************************************************************)
(* Empty results                                                           *)
(***************************************************************************)
\* the scopes recorded in the results of a method
ScopesReported(method) == {r.scope : r \in {x \in AnalysedResults : x.method = method}}

\* C15: nothing empty is recorded: every scope recorded in Step 5 has a matched
\* plugin, every scope key of a scopeResults has pluginCount >= 1 and a
\* non-empty plugins list, and in all-methods mode every method key of
\* methodResults has a non-empty scopeResults and totalPluginCount >= 1.
NoEmptyPlaceholders ==
    /\ \A s \in 1..Len(perScopeMatchedPlugins) : perScopeMatchedPlugins[s].val # <<>>
    /\ \A r \in AnalysedResults :
          /\ r.result.pluginCount >= 1
          /\ r.result.plugins # <<>>
    /\ ~MethodGiven =>
          \A i \in 1..Len(MethodResultsSoFar) :
              /\ MethodResultsSoFar[i].val.scopeResults # <<>>
              /\ MethodResultsSoFar[i].val.totalPluginCount >= 1

\* an all-methods document with results for both methods that leaves out, for
\* one method, a scope whose matched plugins do not hook it while another scope
\* is reported
NoEmptyPlaceholdersSeen ==
    /\ stdout # <<>>
    /\ ~MethodGiven
    /\ stdout[1].methodsWithPlugins = 2
    /\ \E m \in AnalysedMethods :
          /\ ScopesReported(m) # {}
          /\ \E s \in 1..Len(perScopeMatchedPlugins) :
                perScopeMatchedPlugins[s].key \notin ScopesReported(m)

(***************************************************************************)
(* The identity key                                                        *)
(***************************************************************************)
\* C16: in the plugins list of every scope result no two entries have the same
\* pluginName and the same targetType, the targetType being compared as reported,
\* that is with its leading namespace separators stripped.
IdentityKeyUnique ==
    \A r \in AnalysedResults :
        \A i, j \in 1..Len(r.result.plugins) :
            (/\ r.result.plugins[i].pluginName = r.result.plugins[j].pluginName
             /\ r.result.plugins[i].targetType = r.result.plugins[j].targetType)
                => i = j

(***************************************************************************)
(* The declaration files                                                   *)
(***************************************************************************)
\* The place of a path in the order collectDiXmlFiles is to return: for the i-th
\* module its global file, then its file of the scope; app/etc/di.xml after
\* every module; 0 for a path it is not to return.
FileRank(file, enabledPaths, root, scope) ==
    IF \E i \in 1..Len(enabledPaths) : file = GlobalDi(enabledPaths[i])
    THEN 2 * (CHOOSE i \in 1..Len(enabledPaths) : file = GlobalDi(enabledPaths[i])) - 1
    ELSE IF scope # "global"
            /\ \E i \in 1..Len(enabledPaths) : file = AreaDi(enabledPaths[i], scope)
    THEN 2 * (CHOOSE i \in 1..Len(enabledPaths) : file = AreaDi(enabledPaths[i], scope))
    ELSE IF file = AppDi(root) THEN 2 * Len(enabledPaths) + 1
    ELSE 0

\* the paths collectDiXmlFiles looks for
LookedFor(enabledPaths, root, scope) ==
    {GlobalDi(enabledPaths[i]) : i \in 1..Len(enabledPaths)}
    \cup (IF scope = "global" THEN {}
          ELSE {AreaDi(enabledPaths[i], scope) : i \in 1..Len(enabledPaths)})
    \cup {AppDi(root)}

\* files is what the call for these modules, this scope and this disk is to return
CollectedFrom(files, enabledPaths, root, scope, disk) ==
    /\ Range(files) = LookedFor(enabledPaths, root, scope) \cap disk
    /\ \A i, j \in 1..Len(files) :
          i < j => FileRank(files[i], enabledPaths, root, scope)
                      < FileRank(files[j], enabledPaths, root, scope)
    /\ AppDi(root) \in disk => files # <<>> /\ files[Len(files)] = AppDi(root)

\* C17: collectDiXmlFiles returns exactly the existing files among those it looks
\* for, each once: for each module in the order given its global di.xml, followed,
\* only when the scope is not global, by its di.xml of the scope; app/etc/di.xml
\* of the root, if it exists, is the last element.  Absent files are left out
\* and the call returns whatever is absent (the empty list if nothing exists).
CollectsExistingInOrder ==
    /\ pc = "parse_global" =>
          CollectedFrom(diFiles, discoveredModulePaths, argv[2], collectScope,
                        existingFiles)
    /\ pc = "step3" =>
          CollectedFrom(collectDiXmlFiles(discoveredModulePaths, argv[2], collectScope,
                                          existingFiles),
                        discoveredModulePaths, argv[2], collectScope, existingFiles)

\* a call for adminhtml and two enabled modules: the first has both files, the
\* second the global one only, and app/etc/di.xml comes last
CollectsExistingInOrderSeen ==
    /\ pc = "parse_global"
    /\ collectScope = "adminhtml"
    /\ AreaDi(allModulePaths[3], "adminhtml") \notin existingFiles
    /\ diFiles = <<GlobalDi(allModulePaths[1]), AreaDi(allModulePaths[1], "adminhtml"),
                   GlobalDi(allModulePaths[3]), AppDi(magentoRootDir)>>

(***************************************************************************)
(* Module discovery                                                        *)
(***************************************************************************)
\* the module is marked enabled in the status map
MarkedEnabled(m) == m.name \in DOMAIN moduleStatusMap /\ moduleStatusMap[m.name] = 1

\* the registered modules that are absent from the status map or marked disabled
ExcludedModules == {m \in Range(allModulePaths) : ~MarkedEnabled(m)}

\* the position of a module in the registrar's order
RegisteredAt(m) == CHOOSE i \in 1..Len(allModulePaths) : allModulePaths[i] = m

\* the declaration files collected, and those the parsed entries come from
FilesUsed ==
    Range(diFiles)
    \cup UNION {Range(areaDiFiles[i].val) : i \in 1..Len(areaDiFiles)}
    \cup {plugins[i].val.sourceFile : i \in 1..Len(plugins)}
    \cup {globalPlugins[i].val.sourceFile : i \in 1..Len(globalPlugins)}

\* C18: the module paths the bootstrap builds are exactly the registered modules
\* the status map marks enabled (status 1), in registration order; a module absent
\* from the map or marked disabled is not among them, and no file under its path
\* is collected in Step 3 or Step 4 or is the sourceFile of a parsed entry.
OnlyEnabledModules ==
    /\ pc # "discover" =>
          /\ Range(discoveredModulePaths) = Range(allModulePaths) \ ExcludedModules
          /\ \A i, j \in 1..Len(discoveredModulePaths) :
                i < j => RegisteredAt(discoveredModulePaths[i])
                            < RegisteredAt(discoveredModulePaths[j])
    /\ \A file \in FilesUsed : \A m \in ExcludedModules : ~IsPrefix(m.path, file)

\* Steps 3 and 4 done for the project's status map while the disabled module and
\* the module absent from the map have files on disk: the enabled module's
\* files are collected and a plugin was parsed
OnlyEnabledModulesSeen ==
    /\ pc = "step5"
    /\ moduleStatusMap = moduleStatuses
    /\ {GlobalDi(allModulePaths[3]), AreaDi(allModulePaths[3], "adminhtml"),
        GlobalDi(allModulePaths[4])} \subseteq existingFiles
    /\ globalPlugins # <<>>
    /\ areaDiFiles # <<>>

\* the positions of the history at which the script was run in the container
DockerRuns == {i \in 1..Len(executed) : executed[i].via = "docker"}

\* the positions of the history at which the script was run with the local PHP
LocalRuns == {i \in 1..Len(executed) : executed[i].via = "local"}

\* the runs before position i were all made in the container, one for each
\* command of the environment, and each of them failed
EveryDockerAttemptFailed(i) ==
    /\ i - 1 = Len(commands)
    /\ \A j \in 1..(i - 1) :
          /\ executed[j].via = "docker"
          /\ executed[j].command = commands[j]
          /\ executed[j].outcome # "json"

\* C19: executePhpScript runs the script in the container first when a Docker
\* environment is detected (a Warden .env file or one of the marker files is
\* there) and with the local PHP once the container has failed. The local
\* command is run at most once, as the last run of the call, and only when no
\* environment was detected or every command of the environment was run before
\* it and failed; a call that returns without a result from the container has
\* run the local PHP. A command that succeeds in the container is the last run
\* of the call, its result is what the call returns, and the local PHP is not
\* run. (A call whose scripts could not be copied under the project root is
\* rejected before any command is run, in the container or locally.)
DockerFirstThenLocal ==
    /\ \A i \in LocalRuns :
          /\ i = Len(executed)
          /\ execState = "returned"
          /\ \/ dockerEnv = <<>> /\ i = 1
             \/ dockerEnv # <<>> /\ commands # <<>> /\ EveryDockerAttemptFailed(i)
    /\ \A i \in DockerRuns :
          /\ dockerEnv # <<>>
          /\ executed[i].outcome = "json" =>
                /\ i = Len(executed)
                /\ execState = "returned"
                /\ scriptResult = <<Success(executed[i].command)>>
                /\ LocalRuns = {}
    /\ (executed # <<>> /\ (envFile = "WARDEN_ENV_TYPE" \/ projectMarkers # {})) =>
          executed[1].via = "docker"
    /\ execState = "returned" =>
          /\ executed # <<>>
          /\ executed[Len(executed)].via = "docker" =>
                executed[Len(executed)].outcome = "json"
    /\ execState = "thrown" => executed = <<>>

\* a call in an environment of several commands has gone through all of them
\* without success and has returned what the local PHP wrote
DockerFirstThenLocalSeen ==
    /\ execState = "returned"
    /\ Len(commands) > 1
    /\ Len(executed) = Len(commands) + 1
    /\ executed[Len(executed)].via = "local"
    /\ executed[Len(executed)].outcome = "json"
    /\ scriptResult = <<Success(LocalCommand)>>

\* the service of a docker-compose command: the word after "exec -T"
ServiceOf(command) == command.runner[5]

\* C20: in a docker-compose environment the script is run in the services
\* phpfpm, php-fpm and php, in that order and one command at a time: the i-th
\* run of the call is made in the i-th of these services, a service is tried
\* only after the runs in all earlier services failed, and a run that succeeds
\* is the last one, the call returning with no later service tried.
ComposeServicesInOrder ==
    (dockerEnv # <<>> /\ dockerEnv[1].type = "docker-compose") =>
        /\ execState \in {"docker", "local", "returned"} =>
              /\ Len(commands) = 3
              /\ ServiceOf(commands[1]) = "phpfpm"
              /\ ServiceOf(commands[2]) = "php-fpm"
              /\ ServiceOf(commands[3]) = "php"
        /\ Cardinality(DockerRuns) <= 3
        /\ \A i \in DockerRuns :
              /\ DockerRuns = 1..Cardinality(DockerRuns)
              /\ executed[i].command = commands[i]
              /\ ServiceOf(executed[i].command) = <<"phpfpm", "php-fpm", "php">>[i]
              /\ \A j \in 1..(i - 1) : executed[j].outcome # "json"
              /\ executed[i].outcome = "json" =>
                    /\ Len(executed) = i
                    /\ execState = "returned"

\* phpfpm and php-fpm have failed, each in its own way, php has written JSON and
\* the call has returned it
ComposeServicesInOrderSeen ==
    /\ dockerEnv # <<>>
    /\ dockerEnv[1].type = "docker-compose"
    /\ execState = "returned"
    /\ Len(executed) = 3
    /\ executed[1].outcome = "exec failed"
    /\ executed[2].outcome = "not json"
    /\ executed[3].outcome = "json"
    /\ ServiceOf(executed[3].command) = "php"
    /\ scriptResult = <<Success(commands[3])>>

(***************************************************************************)
(* One parse pass, read back from the nodes it was given                   *)
(***************************************************************************)
RECURSIVE MappingOf(_, _)
\* the mapping parsePluginsFromFiles has built from ps once it has read nodes
MappingOf(ps, nodes) ==
    IF nodes = <<>> THEN ps
    ELSE MappingOf(ParsePluginNode(ps, Head(nodes).file, Head(nodes).node), Tail(nodes))

\* the nodes read before the last one
EarlierNodes == SubSeq(readNodes, 1, Len(readNodes) - 1)

\* the entry new is the entry old with the attributes of the type-less node
\* read from file, and nothing else changed
KeptByRefinement(node, file, old, new) ==
    /\ new.pluginName = old.pluginName
    /\ new.targetType = old.targetType
    /\ new.pluginType = old.pluginType
    /\ node.disabled = "" => new.disabled = old.disabled
    /\ ~node.hasSortOrder => new.sortOrder = old.sortOrder
    /\ new.sourceFile = file

\* the last node read refines an entry of the mapping before
RefinesIn(before, last) ==
    Redeclares(last.node, before) =>
        KeptByRefinement(last.node, last.file,
                         Get(before, CompositeKey(last.node.targetType, last.node.name)),
                         Get(plugins, CompositeKey(last.node.targetType, last.node.name)))

\* C22: a refinement, that is a <plugin> node with an empty type whose key is
\* already in the mapping of the running parse pass, leaves the entry's
\* pluginName, targetType and pluginType as they were, leaves disabled as it was
\* when the node gives no disabled value, leaves sortOrder as it was when the
\* node has no sortOrder attribute, and sets sourceFile to the file of the node.
RefinementFrame ==
    (pc = "parse_global" /\ readNodes # <<>>) =>
        RefinesIn(MappingOf(<<>>, EarlierNodes), readNodes[Len(readNodes)])

\* a plugin declared disabled and with a sortOrder in one file has been refined
\* by a node of the next file that has neither attribute: the entry has the type,
\* the sortOrder and the disabled value of the first and the file of the second
RefinementFrameSeen ==
    /\ pc = "parse_global"
    /\ Len(readNodes) = 2
    /\ readNodes[1].node = Element(Foo, "p", PlugBA, SortOrder20, "1")
    /\ readNodes[2].node = Element(Foo, "p", <<>>, NoSortOrder, "")
    /\ readNodes[1].file # readNodes[2].file
    /\ plugins = <<[key |-> CompositeKey(Foo, "p"),
                    val |-> [pluginName |-> "p", pluginType |-> PlugBA,
                             targetType |-> Foo, sortOrder |-> 20, disabled |-> "1",
                             sourceFile |-> readNodes[2].file]]>>

\* the parser reads the node: its type and its plugin have a name
IsDeclaration(node) == ~PhpEmpty(node.targetType) /\ ~PhpEmptyStr(node.name)

\* the positions of readNodes at which key was declared
DeclarationsOf(key) ==
    {i \in 1..Len(readNodes) :
        /\ IsDeclaration(readNodes[i].node)
        /\ CompositeKey(readNodes[i].node.targetType, readNodes[i].node.name) = key}

Highest(S) == CHOOSE i \in S : \A j \in S : j <= i

Lowest(S) == CHOOSE i \in S : \A j \in S : i <= j

\* the position of the last declaration that wrote the full entry of a key
\* declared at the positions decls: the last one with a type, or the first one
\* when none has a type
LastFullDeclaration(decls) ==
    Highest({i \in decls : ~PhpEmpty(readNodes[i].node.type) \/ i = Lowest(decls)})

\* the sortOrder of the entry declared at the positions decls, its full entry
\* written at position full: that of the last node from full on with the
\* attribute, 0 when none has it
SortOrderFrom(decls, full) ==
    IF \E i \in decls : i >= full /\ readNodes[i].node.hasSortOrder
    THEN IntCast(readNodes[Highest({i \in decls :
                     i >= full /\ readNodes[i].node.hasSortOrder})].node.sortOrder)
    ELSE 0

\* its disabled value: that of the last node from full on that gives one, empty
\* when none does
DisabledFrom(decls, full) ==
    IF \E i \in decls : i >= full /\ readNodes[i].node.disabled # ""
    THEN readNodes[Highest({i \in decls :
             i >= full /\ readNodes[i].node.disabled # ""})].node.disabled
    ELSE ""

\* the entry of a key declared at decls carries the values of its last full
\* declaration and of the refinements after it
FullEntryThenRefinements(entry, decls, full) ==
    /\ decls # {}
    /\ entry.pluginName = readNodes[full].node.name
    /\ entry.targetType = readNodes[full].node.targetType
    /\ entry.sortOrder = SortOrderFrom(decls, full)
    /\ entry.disabled = DisabledFrom(decls, full)

\* C23: a <plugin> node for a new key, or one with a non-empty type for a key
\* already in the mapping, writes the full entry: sortOrder is the node's value,
\* or 0 when it has no sortOrder attribute, disabled is the node's value, or
\* empty when it gives none. So after any sequence of nodes the sortOrder and
\* the disabled value of an entry are those of the last node of its key that had
\* a type (of the first node of the key when none had), as changed by the
\* type-less nodes read after it; a plugin declared disabled and declared again
\* with a type and no disabled attribute is enabled.
FullEntryWritten ==
    pc = "parse_global" =>
        /\ \A key \in Keys(plugins) :
              FullEntryThenRefinements(Get(plugins, key), DeclarationsOf(key),
                                       LastFullDeclaration(DeclarationsOf(key)))
        /\ \A i \in 1..Len(readNodes) :
              IsDeclaration(readNodes[i].node) =>
                  Isset(plugins, CompositeKey(readNodes[i].node.targetType,
                                              readNodes[i].node.name))

\* a plugin declared with disabled="1" and a sortOrder has been declared again
\* with another type and neither attribute: it is enabled, its sortOrder is 0
FullEntryWrittenSeen ==
    /\ pc = "parse_global"
    /\ Len(readNodes) = 2
    /\ readNodes[1].node = Element(Foo, "p", PlugBA, SortOrder20, "1")
    /\ readNodes[2].node = Element(Foo, "p", PlugAll, NoSortOrder, "")
    /\ Get(plugins, CompositeKey(Foo, "p")).disabled = ""
    /\ Get(plugins, CompositeKey(Foo, "p")).sortOrder = 0
    /\ Get(plugins, CompositeKey(Foo, "p")).pluginType = PlugAll

\* the nodes read from file, in the order read
NodesOf(file, nodes) == SelectSeq(nodes, LAMBDA n : n.file = file)

RECURSIVE ParseFiles(_, _, _)
\* parsePluginsFromFiles run on the file list files, each file holding the nodes
\* that nodes has for it
ParseFiles(ps, files, nodes) ==
    IF files = <<>> THEN ps
    ELSE ParseFiles(MappingOf(ps, NodesOf(Head(files), nodes)), Tail(files), nodes)

\* the file list without its i-th file
WithoutFile(files, i) == SubSeq(files, 1, i - 1) \o SubSeq(files, i + 1, Len(files))

\* the files of the list from which a node was read
FilesRead(files, nodes) ==
    SelectSeq(files, LAMBDA f : \E i \in 1..Len(nodes) : nodes[i].file = f)

\* C24: the parser goes on when its input is bad. A file that cannot be loaded
\* is skipped: the mapping is the one parsePluginsFromFiles builds from the same
\* file list without that file (it is built from the files that gave a node
\* alone), no warning is recorded, nothing is written to STDERR and the script
\* does not end. A <plugin> node with an empty name leaves the mapping as it
\* was: it adds no entry and changes none.
ParserSkipsBadInput ==
    pc = "parse_global" =>
        /\ warnings = <<>> /\ stderr = <<>> /\ exitCode = <<>>
        /\ plugins = ParseFiles(<<>>, FilesRead(diFiles, readNodes), readNodes)
        /\ (curFile >= 1 /\ ~xmlOk) =>
              plugins = ParseFiles(<<>>, WithoutFile(diFiles, curFile), readNodes)
        /\ (readNodes # <<>> /\ readNodes[Len(readNodes)].node.name = "") =>
              plugins = MappingOf(<<>>, EarlierNodes)

\* the first file declared a plugin and then held a node without a name, the
\* second file could not be loaded: the mapping is the one entry of the first
\* declaration
ParserSkipsBadInputSeen ==
    /\ pc = "parse_global"
    /\ Len(diFiles) = 2
    /\ curFile = 2
    /\ ~xmlOk
    /\ Len(readNodes) = 2
    /\ readNodes[1].file = diFiles[1]
    /\ readNodes[1].node = Element(Foo, "p", PlugBA, SortOrder20, "")
    /\ readNodes[2].node = Element(Foo, "", PlugAll, NoSortOrder, "")
    /\ Keys(plugins) = {CompositeKey(Foo, "p")}
    /\ Get(plugins, CompositeKey(Foo, "p")).sourceFile = diFiles[1]

(***************************************************************************)
(* The steps and the plugins of one result                                 *)
(***************************************************************************)
\* the hook kind a step of a phase stands for
KindOf(step) ==
    CASE step = "before" -> "before"
      [] step = "around (entering)" -> "around"
      [] step = "around (exiting)" -> "around"
      [] step = "after" -> "after"

\* the step s is a step of the plugin pl
StepOfPlugin(s, pl) ==
    /\ s.step # "original"
    /\ s.pluginName = pl.pluginName
    /\ s.class = pl.pluginType
    /\ s.sortOrder = <<pl.sortOrder>>
    /\ KindOf(s.step) \in DOMAIN pl.methods
    /\ s.method = pl.methods[KindOf(s.step)]

\* the steps of order and the plugins of pluginList are the same plugins
StepsMatchPlugins(order, pluginList) ==
    /\ \A i \in 1..Len(order) :
          order[i].step # "original" =>
              \E j \in 1..Len(pluginList) : StepOfPlugin(order[i], pluginList[j])
    /\ \A j \in 1..Len(pluginList) :
          \E i \in 1..Len(order) : StepOfPlugin(order[i], pluginList[j])
    /\ Len(order) = Len(PluginsWith(pluginList, "before"))
                    + 2 * Len(PluginsWith(pluginList, "around"))
                    + Len(PluginsWith(pluginList, "after")) + 1

\* C26: in every scope result executionOrder and plugins agree. Each step other
\* than the original one carries the pluginName, the pluginType (as class) and
\* the sortOrder of a plugin of the result's plugins list, and as method the
\* hook method that plugin's methods mapping has for the step's phase; every
\* plugin of the list has at least one step; and the steps are as many as the
\* plugins with a before hook, twice the plugins with an around hook, the
\* plugins with an after hook and one.
OrderAgreesWithPlugins ==
    \A r \in AnalysedResults :
        StepsMatchPlugins(r.result.executionOrder, r.result.plugins)

\* a result of three plugins or more, one of them without an around hook, whose
\* order has more than twice as many steps as plugins
OrderAgreesWithPluginsSeen ==
    \E r \in AnalysedResults :
        /\ Len(r.result.plugins) >= 3
        /\ Len(PluginsWith(r.result.plugins, "around")) \in 1..(Len(r.result.plugins) - 1)
        /\ Len(r.result.executionOrder) > 2 * Len(r.result.plugins)

(***************************************************************************)
(* The scopes are independent of each other                                *)
(***************************************************************************)
\* what Steps 5 and 6 make of the global mapping and of the one mapping own,
\* for a scope and a method: nothing another scope declares is read
ResultFrom(global, own, scope, method) ==
    ScopeResult(scope,
                filterPluginsByMethod(MatchedPlugins(global, own, normalizedHierarchy),
                                      Ucfirst(method), enabledModulePaths, argv[2]),
                ClassNameArg, method)

\* the scope has no result for the method
NotReported(method, scope) ==
    \A r \in AnalysedResults : ~(r.method = method /\ r.scope = scope)

\* C25: what is reported for a scope (plugins, executionOrder, pluginCount), and
\* whether anything is, is decided by the global di.xml files and the scope's own
\* files alone: the matched plugins of every scope are those of the global
\* mapping as Step 3 parsed it under the scope's own mapping, so the declarations
\* of another scope change nothing for it, and the global mapping is the same
\* for every scope, those processed after a scope with files of its own included.
\* The matched plugins are read when Step 5 has ended, the results in the
\* document the script has written.
ScopesIndependent ==
    /\ (ScopesDone /\ methodIdx = 0 /\ stdout = <<>>) =>
          \A scope \in Range(allScopes) :
              MatchedOf(scope) =
                  MatchedPlugins(globalPlugins, AreaOf(scope), normalizedHierarchy)
    /\ (ScopesDone /\ stdout # <<>>) =>
          /\ \A r \in AnalysedResults :
                r.result = ResultFrom(globalPlugins, AreaOf(r.scope), r.scope, r.method)
          /\ \A method \in AnalysedMethods : \A scope \in Range(allScopes) :
                NotReported(method, scope) =>
                    ResultFrom(globalPlugins, AreaOf(scope), scope, method).plugins = <<>>

\* the frontend files change what the global files declare and the adminhtml
\* files do not: the run has ended, the frontend result differs from the global
\* one, and the scopes before and after frontend report what global reports
ScopesIndependentSeen ==
    /\ ScopesDone
    /\ stdout # <<>>
    /\ MatchedOf("global") # <<>>
    /\ AreaOf("frontend") # <<>>
    /\ MatchedOf("frontend") # MatchedOf("global")
    /\ MatchedOf("adminhtml") = MatchedOf("global")
    /\ MatchedOf("crontab") = MatchedOf("global")
    /\ \E r \in AnalysedResults : r.scope = "crontab" /\ r.result.pluginCount >= 1

(***************************************************************************)
(* The ways a call of executePhpScript ends                                *)
(***************************************************************************)
\* the call has come to its end: it has returned a result or was rejected
CallEnded == execState \in {"returned", "thrown"}

\* an error result
IsErrorResult(r) ==
    /\ DOMAIN r = {"success", "isError", "error"}
    /\ r.success = FALSE
    /\ r.isError = TRUE

\* a success result
IsSuccessResult(r) == DOMAIN r = {"success", "data"} /\ r.success = TRUE

\* C28: executePhpScript always resolves to a PhpScriptResult and never rejects:
\* a call that has ended has returned one result, a success or an error result,
\* whatever failed on the way (the creation of the temporary directory, the copy
\* of the scripts, a Docker command, the local PHP, the parsing of the output).
NeverRejects ==
    CallEnded =>
        /\ execState = "returned"
        /\ Len(scriptResult) = 1
        /\ IsSuccessResult(scriptResult[1]) \/ IsErrorResult(scriptResult[1])

\* executeViaDocker has been called and has ended
DockerCallEnded == dockerEnv # <<>> /\ execState \in {"local", "returned", "thrown"}

\* C29: every call of executeViaDocker calls rmSync on the temporary directory
\* once before it ends, whichever way it ends: a Docker command succeeded, every
\* command failed, or the creation of the directory or the copy of the scripts
\* threw. The removal comes after every Docker command the call runs, none runs
\* after it. A removal that fails is ignored: the call ends as it would have,
\* with the result of the command that succeeded, with the local PHP next, or
\* with the exception of the copy, and only the copy makes it throw.
RemovedOnEveryPath ==
    /\ DockerCallEnded => Len(removed) = 1
    /\ ~DockerCallEnded => removed = <<>>
    /\ removed # <<>> =>
          /\ \A i \in DockerRuns : i <= removed[1].after
          /\ removed[1].after = Cardinality(DockerRuns)
          /\ removed[1].ok => ~staged
          /\ \/ /\ removed[1].after = 0
                /\ execState = "thrown"
                /\ commands = <<>>
             \/ /\ removed[1].after >= 1
                /\ executed[removed[1].after].outcome = "json"
                /\ execState = "returned"
                /\ scriptResult = <<Success(executed[removed[1].after].command)>>
             \/ /\ removed[1].after = Len(commands)
                /\ commands # <<>>
                /\ \A i \in DockerRuns : executed[i].outcome # "json"
                /\ execState \in {"local", "returned"}
                /\ execState = "returned" => executed[Len(executed)].via = "local"

\* the three commands of docker-compose have failed, the removal of the
\* directory has failed too, and the call has returned what the local PHP wrote
RemovedOnEveryPathSeen ==
    /\ execState = "returned"
    /\ Len(commands) = 3
    /\ Len(removed) = 1
    /\ removed[1].after = 3
    /\ ~removed[1].ok
    /\ staged
    /\ scriptResult = <<Success(LocalCommand)>>

\* C30: executeViaDocker rewrites a copy of the argument list and leaves the
\* caller's array as it was. The commands run in the container have the container
\* root as first argument and the caller's other arguments, in their places; the
\* local PHP that is run after them has the caller's arguments, the project root
\* of the host first.
CallerArgsUntouched ==
    /\ execState # "idle" => args = scriptArgs
    /\ \A i \in DockerRuns :
          /\ Len(executed[i].command.args) = Len(scriptArgs)
          /\ executed[i].command.args[1] = shellQuote(containerRoot)
          /\ \A k \in 2..Len(scriptArgs) :
                executed[i].command.args[k] = shellQuote(scriptArgs[k])
    /\ \A i \in LocalRuns :
          /\ Len(executed[i].command.args) = Len(scriptArgs)
          /\ executed[i].command.args[1] = shellQuote(magentoRootDir)
          /\ \A k \in 1..Len(scriptArgs) :
                executed[i].command.args[k] = shellQuote(scriptArgs[k])

\* the command of the container has failed and the local PHP has been run, on
\* the project root of the host
CallerArgsUntouchedSeen ==
    /\ execState = "returned"
    /\ DockerRuns # {}
    /\ LocalRuns # {}
    /\ executed[1].command.args[1] = shellQuote(containerRoot)
    /\ executed[Len(executed)].command.args[1] = shellQuote(magentoRootDir)
    /\ containerRoot # magentoRootDir

(***************************************************************************)
(* Overlapping calls                                                       *)
(***************************************************************************)
\* C27: when two calls of executePhpScript overlap in a project root with a
\* Docker environment, the scripts a call has copied into var/tmp/mcp-php are
\* there as long as the call awaits one of its Docker commands: the cleanup of
\* the other call does not remove the directory the two share.
ScriptsStayWhileRunning ==
    \A c \in Callers : calls[c].state = "awaiting" => tmpDir = PhpScripts

(***************************************************************************)
(* executeMagerun2Command                                                  *)
(***************************************************************************)
\* exec has failed
ExecFailed == execResult # <<>> /\ "message" \in DOMAIN execResult[1]

\* exec has run the command and JSON.parse has thrown on what it wrote
ParseFailed ==
    /\ execResult # <<>>
    /\ "stdout" \in DOMAIN execResult[1]
    /\ parseJson
    /\ Trim(execResult[1].stdout) \notin JsonTexts

\* text holds part, word after word
Holds(text, part) ==
    \E i \in 0..(Len(text) - Len(part)) : SubSeq(text, i + 1, i + Len(part)) = part

\* C21: executeMagerun2Command does not throw: once exec has ended the call
\* returns one value. Every failure of exec and every failure to parse the output
\* as JSON comes back as {success: false, isError: true, error}. When the message
\* of the failure includes "command not found" or "not recognized" the error is
\* the magerun2-not-found message, also when the message includes the phrases
\* of a directory that is no Magento installation, which are tested after it.
\* The error of a parse failure includes the raw output.
MagerunErrorsAreValues ==
    /\ magerunState \in {"idle", "start", "resolved", "rejected", "returned"}
    /\ magerunState = "returned" =>
          /\ Len(magerunResult) = 1
          /\ (ExecFailed \/ ParseFailed) =>
                /\ DOMAIN magerunResult[1] = {"success", "isError", "error"}
                /\ magerunResult[1].success = FALSE
                /\ magerunResult[1].isError = TRUE
          /\ ~(ExecFailed \/ ParseFailed) =>
                /\ magerunResult[1].success = TRUE
                /\ magerunResult[1].rawOutput = execResult[1].stdout
          /\ (ExecFailed /\ ({"command not found", "not recognized"}
                               \cap Range(execResult[1].message) # {})) =>
                magerunResult[1].error = MagerunNotFound
          /\ (ExecFailed /\ ({"command not found", "not recognized"}
                               \cap Range(execResult[1].message) = {})) =>
                magerunResult[1].error # MagerunNotFound
          /\ ParseFailed => Holds(magerunResult[1].error, execResult[1].stdout)

\* exec has failed with a message that has "command not found" after the phrase
\* of a directory without Magento, and the magerun2-not-found error was returned
MagerunErrorsAreValuesSeen ==
    /\ magerunState = "returned"
    /\ ExecFailed
    /\ execResult[1].message =
          <<"Command failed:", "not a Magento installation", "command not found">>
    /\ magerunResult = <<Failure(MagerunNotFound)>>

====
